---- MODULE Spec2Model ----
(***************************************************************************)
(* UNO-MCP: the TextAnalyzer (src/src/analyzer.ts) and the                 *)
(* EnhancementProcessor (src/src/enhancer.ts) as a state machine.          *)
(*                                                                         *)
(* A text is a TLA+ string, read as the sequence of its characters: Len,   *)
(* SubSeq and \o are JavaScript's length, slice and +.  The em dash of the *)
(* source's templates (U+2014, one UTF-16 unit, neither \w nor \s) is      *)
(* written "-" here, which is one character, neither \w nor \s, too.       *)
(***************************************************************************)
EXTENDS Integers, Sequences, FiniteSets, TLC

(***************************************************************************)
(* Characters and the JavaScript string primitives the source uses.        *)
(***************************************************************************)
UpperLetters == "ABCDEFGHIJKLMNOPQRSTUVWXYZ"
LowerLetters == "abcdefghijklmnopqrstuvwxyz"
DigitChars == "0123456789"

CharAt(s, i) == IF i >= 1 /\ i <= Len(s) THEN SubSeq(s, i, i) ELSE ""

CharsOf(s) == {SubSeq(s, i, i) : i \in 1..Len(s)}

UpperSet == CharsOf(UpperLetters)

\* /\w/ : [A-Za-z0-9_]
WordCharSet == CharsOf(UpperLetters) \cup CharsOf(LowerLetters) \cup CharsOf(DigitChars) \cup {"_"}

\* /\s/ over the characters of the model's texts
SpaceCharSet == {" ", "\n", "\t", "\r"}

IsWordChar(c) == c \in WordCharSet

IsSpaceChar(c) == c \in SpaceCharSet

LowerMap == [c \in UpperSet |-> CharAt(LowerLetters, CHOOSE i \in 1..26 : CharAt(UpperLetters, i) = c)]

UpperMap == [c \in CharsOf(LowerLetters) |-> CharAt(UpperLetters, CHOOSE i \in 1..26 : CharAt(LowerLetters, i) = c)]

LowerChar(c) == IF c \in UpperSet THEN LowerMap[c] ELSE c

UpperChar(c) == IF c \in DOMAIN UpperMap THEN UpperMap[c] ELSE c

\* the numbers of lo..hi that satisfy P, in increasing order
positionsOf(P(_), lo, hi) == SelectSeq([k \in 1..(hi - lo + 1) |-> lo + k - 1], P)

\* Array.prototype.join
RECURSIVE join(_, _)
join(parts, sep) ==
  IF Len(parts) = 0 THEN ""
  ELSE IF Len(parts) = 1 THEN parts[1]
  ELSE LET h == Len(parts) \div 2
       IN join(SubSeq(parts, 1, h), sep) \o sep \o join(SubSeq(parts, h + 1, Len(parts)), sep)

\* String.prototype.toLowerCase: the stretches between the upper-case letters
\* of s are kept and each upper-case letter is replaced by its lower-case one
toLowerCase(s) ==
  LET n == Len(s)
      isUpper(i) == SubSeq(s, i, i) \in UpperSet
      \* up: the positions of the upper-case letters
      lowered(up) ==
        LET stretch(k) == SubSeq(s, (IF k = 1 THEN 0 ELSE up[k - 1]) + 1,
                                 (IF k > Len(up) THEN n + 1 ELSE up[k]) - 1)
            piece(k) == stretch(k)
                        \o (IF k > Len(up) THEN "" ELSE LowerMap[SubSeq(s, up[k], up[k])])
        IN join([k \in 1..(Len(up) + 1) |-> piece(k)], "")
  IN lowered(positionsOf(isUpper, 1, n))

\* s.slice(from - 1): the rest of s from its from-th character
SliceFrom(s, from) == IF from > Len(s) THEN "" ELSE SubSeq(s, from, Len(s))

\* s.slice(0, to): the first `to` characters of s
SliceTo(s, to) == IF to <= 0 THEN "" ELSE SubSeq(s, 1, to)

\* the string at position i of s is p
OccursAt(s, p, i) == i >= 1 /\ i + Len(p) - 1 <= Len(s) /\ SubSeq(s, i, i + Len(p) - 1) = p

\* s begins with p
startsWith(s, p) == Len(p) <= Len(s) /\ SubSeq(s, 1, Len(p)) = p

\* String.prototype.includes
includes(s, p) == \E i \in 1..(Len(s) - Len(p) + 1) : SubSeq(s, i, i + Len(p) - 1) = p

\* the least element of a non-empty set of integers
MinOf(S) == CHOOSE x \in S : \A y \in S : x <= y

\* String.prototype.indexOf(p, from), 1-based; 0 when p does not occur
indexOf(s, p, from) ==
  LET first(hits) == IF hits = {} THEN 0 ELSE MinOf(hits)
  IN first({i \in from..(Len(s) - Len(p) + 1) : SubSeq(s, i, i + Len(p) - 1) = p})

\* String.prototype.split(/[C]+/) for a character class C: the pieces between
\* the maximal runs of C's characters; a leading or trailing run leaves an
\* empty first or last piece
splitRuns(s, C) ==
  LET n == Len(s)
      inC(i) == i >= 1 /\ i <= n /\ SubSeq(s, i, i) \in C
      isStart(i) == ~inC(i) /\ ~(i > 1 /\ ~inC(i - 1))
      isEnd(i) == ~inC(i) /\ ~(i < n /\ ~inC(i + 1))
      pieces(starts, ends) == [k \in 1..Len(starts) |-> SubSeq(s, starts[k], ends[k])]
  IN IF n = 0 THEN <<"">>
     ELSE (IF inC(1) THEN <<"">> ELSE <<>>)
          \o pieces(positionsOf(isStart, 1, n), positionsOf(isEnd, 1, n))
          \o (IF inC(n) THEN <<"">> ELSE <<>>)

\* text.split(/\s+/)
splitWhitespace(s) == splitRuns(s, SpaceCharSet)

\* s.trim()
trim(s) ==
  LET between(keep) ==
        IF keep = {} THEN ""
        ELSE SubSeq(s, MinOf(keep), CHOOSE x \in keep : \A y \in keep : y <= x)
  IN between({i \in 1..Len(s) : ~IsSpaceChar(SubSeq(s, i, i))})

\* a decimal digit string as a number
RECURSIVE ToNat(_)
ToNat(d) ==
  IF Len(d) = 0 THEN 0
  ELSE ToNat(SliceTo(d, Len(d) - 1)) * 10
       + (CHOOSE v \in 0..9 : CharAt(DigitChars, v + 1) = CharAt(d, Len(d)))

\* String(n) for a natural number n
RECURSIVE numberToString(_)
numberToString(n) ==
  IF n < 10 THEN CharAt(DigitChars, n + 1)
  ELSE numberToString(n \div 10) \o CharAt(DigitChars, (n % 10) + 1)

\* Math.round(a / b * 100) for integers a >= 0, b > 0
RoundPercent(a, b) == (200 * a + b) \div (2 * b)

\* Math.round(n * (t / 100)) for integers n, t >= 0
RoundScaled(n, t) == (2 * n * t + 100) \div 200

\* a word boundary \b of s just before its i-th character
wordBoundaryAt(s, i) == IsWordChar(CharAt(s, i - 1)) # IsWordChar(CharAt(s, i))

\* of the increasing positions pos[k..], those a global (/g) scan keeps: a match
\* is taken when it starts at or after `from`, the end of the match before it
RECURSIVE scanMatches(_, _, _, _)
scanMatches(pos, lenAt, k, from) ==
  IF k > Len(pos) THEN <<>>
  ELSE IF pos[k] < from THEN scanMatches(pos, lenAt, k + 1, from)
  ELSE IF \A j \in k..(Len(pos) - 1) : pos[j] + lenAt[pos[j]] <= pos[j + 1]
       \* no match reaches into the next one: all of them are taken
       THEN SubSeq(pos, k, Len(pos))
  ELSE <<pos[k]>> \o scanMatches(pos, lenAt, k + 1, pos[k] + lenAt[pos[k]])

\* String.prototype.split(sep) for a non-empty string separator: the pieces
\* between the occurrences of sep, found from left to right
splitStr(s, sep) ==
  LET n == Len(s)
      isHit(i) == OccursAt(s, sep, i)
      lenAt(len) == [i \in 1..n |-> len]
      cut(at) == [k \in 1..(Len(at) + 1) |->
                    SubSeq(s, IF k = 1 THEN 1 ELSE at[k - 1] + Len(sep),
                           IF k > Len(at) THEN n ELSE at[k] - 1)]
  IN cut(scanMatches(positionsOf(isHit, 1, n), lenAt(Len(sep)), 1, 1))

\* text.match(/a1|a2|.../g): the start positions of the matches of an
\* alternation of literal strings (alts, in the regex's order), case-sensitive
matchAlternation(s, alts) ==
  LET n == Len(s)
      heads == {SubSeq(alts[a], 1, 1) : a \in 1..Len(alts)}
      \* the first alternative that matches at i decides the length of the match
      firstAlt(i) == Len(alts[MinOf({a \in 1..Len(alts) : OccursAt(s, alts[a], i)})])
      matchesAt(i) == SubSeq(s, i, i) \in heads
                      /\ \E a \in 1..Len(alts) : OccursAt(s, alts[a], i)
  IN scanMatches(positionsOf(matchesAt, 1, n), [i \in 1..n |-> firstAlt(i)], 1, 1)

\* of the increasing positions q[k..] of the quote characters, the number of
\* matches of /["'].*?["']/g: a quote pairs with the next quote when no line
\* terminator lies between them ("." does not match one), else it is skipped
RECURSIVE scanQuotes(_, _, _)
scanQuotes(s, q, k) ==
  IF k + 1 > Len(q) THEN 0
  ELSE IF \E j \in (q[k] + 1)..(q[k + 1] - 1) : SubSeq(s, j, j) \in {"\n", "\r"}
       THEN scanQuotes(s, q, k + 1)
       ELSE 1 + scanQuotes(s, q, k + 2)

\* (text.match(/["'].*?["']/g) || []).length
countQuotedSpans(s) ==
  LET isQuote(i) == SubSeq(s, i, i) \in {"\"", "'"}
  IN scanQuotes(s, positionsOf(isQuote, 1, Len(s)), 1)

\* new RegExp(src) raises a SyntaxError: an unmatched ")" or "(", or an
\* unterminated "[" (the only metacharacters in the names of the model's texts)
RECURSIVE regExpScan(_, _, _, _)
regExpScan(src, i, depth, inClass) ==
  IF i > Len(src) THEN depth > 0 \/ inClass
  ELSE LET c == CharAt(src, i)
       IN IF inClass THEN regExpScan(src, i + 1, depth, c # "]")
          ELSE IF c = "[" THEN regExpScan(src, i + 1, depth, TRUE)
          ELSE IF c = "(" THEN regExpScan(src, i + 1, depth + 1, FALSE)
          ELSE IF c = ")" THEN (depth = 0 \/ regExpScan(src, i + 1, depth - 1, FALSE))
          ELSE regExpScan(src, i + 1, depth, FALSE)

RegExpThrows(src) == regExpScan(src, 1, 0, FALSE)

\* the start positions of the matches of new RegExp(`\\b${word}\\b`, 'gi') in
\* s, for a word of literal characters
matchWord(s, word) ==
  LET n == Len(s)
      \* the case-insensitive match, made on the lower-cased text and word
      matchLower(low, w) ==
        LET hit(i) == OccursAt(low, w, i) /\ wordBoundaryAt(s, i)
                      /\ wordBoundaryAt(s, i + Len(w))
            lenAt(len) == [i \in 1..n |-> len]
        IN scanMatches(positionsOf(hit, 1, n), lenAt(Len(w)), 1, 1)
  IN matchLower(toLowerCase(s), toLowerCase(word))

(***************************************************************************)
(* TextAnalyzer (src/src/analyzer.ts).                                     *)
(***************************************************************************)
NonEmpty(w) == Len(w) > 0

countWords(text) == Len(SelectSeq(splitWhitespace(text), NonEmpty))

containsPatterns(text, patterns) ==
  LET someIn(lowerText) == \E k \in 1..Len(patterns) : includes(lowerText, patterns[k])
  IN someIn(toLowerCase(text))

dialogueTagVerbs == <<"said", "asked", "replied", "responded", "shouted", "whispered">>

actionVerbList == <<"ran", "jumped", "fought", "grabbed", "threw", "dodged", "attacked",
                    "rushed", "lunged", "sprinted", "dashed">>

SceneThreshold == 5

\* the three marker counts of determineSceneType
dialogueLinesOf(text) == countQuotedSpans(text)

dialogueTagsOf(text) == Len(matchAlternation(text, dialogueTagVerbs))

actionVerbsOf(text) == Len(matchAlternation(text, actionVerbList))

\* the quoted spans and the speech tags are counted together against the
\* threshold
classifyScene_SumOfMarkers(dialogueLines, dialogueTags, actionVerbs) ==
  [dominantType |-> IF dialogueLines + dialogueTags > SceneThreshold THEN "dialogue"
                    ELSE IF actionVerbs > SceneThreshold THEN "action" ELSE "exposition",
   isAction |-> actionVerbs > SceneThreshold,
   isDialogue |-> dialogueLines + dialogueTags > SceneThreshold,
   isExposition |-> ~(actionVerbs > SceneThreshold)
                    /\ ~(dialogueLines + dialogueTags > SceneThreshold),
   dialogueCount |-> dialogueLines,
   actionVerbCount |-> actionVerbs]

\* a scene counts as an action scene as soon as it holds one action verb
classifyScene_AnyActionVerb(dialogueLines, dialogueTags, actionVerbs) ==
  [dominantType |-> IF dialogueLines > SceneThreshold \/ dialogueTags > SceneThreshold
                    THEN "dialogue" ELSE IF actionVerbs > 0 THEN "action" ELSE "exposition",
   isAction |-> actionVerbs > 0,
   isDialogue |-> dialogueLines > SceneThreshold \/ dialogueTags > SceneThreshold,
   isExposition |-> ~(actionVerbs > 0)
                    /\ ~(dialogueLines > SceneThreshold \/ dialogueTags > SceneThreshold),
   dialogueCount |-> dialogueLines,
   actionVerbCount |-> actionVerbs]

\* a scene with both many action verbs and many dialogue markers is "mixed"
classifyScene_MixedWhenBoth(dialogueLines, dialogueTags, actionVerbs) ==
  LET isActionScene == actionVerbs > SceneThreshold
      isDialogueHeavy == dialogueLines > SceneThreshold \/ dialogueTags > SceneThreshold
  IN [dominantType |-> IF isActionScene /\ isDialogueHeavy THEN "mixed"
                       ELSE IF isDialogueHeavy THEN "dialogue"
                       ELSE IF isActionScene THEN "action" ELSE "exposition",
      isAction |-> isActionScene, isDialogue |-> isDialogueHeavy,
      isExposition |-> ~isActionScene /\ ~isDialogueHeavy,
      dialogueCount |-> dialogueLines, actionVerbCount |-> actionVerbs]

\* the classification determineSceneType makes of its three counts
classifyScene(dialogueLines, dialogueTags, actionVerbs) ==
  LET isActionScene == actionVerbs > SceneThreshold
      isDialogueHeavy == dialogueLines > SceneThreshold \/ dialogueTags > SceneThreshold
      isExposition == ~isActionScene /\ ~isDialogueHeavy
      t0 == "mixed"
      t1 == IF isActionScene THEN "action" ELSE t0
      t2 == IF isDialogueHeavy THEN "dialogue" ELSE t1
      t3 == IF isExposition THEN "exposition" ELSE t2
  IN [dominantType |-> t3, isAction |-> isActionScene, isDialogue |-> isDialogueHeavy,
      isExposition |-> isExposition, dialogueCount |-> dialogueLines,
      actionVerbCount |-> actionVerbs]

determineSceneType(text) ==
  classifyScene(dialogueLinesOf(text), dialogueTagsOf(text), actionVerbsOf(text))

\* word.replace(/[^\w]/, ''): without the g flag only the FIRST character that
\* is not a word character is removed
removeFirstNonWord(w) ==
  LET without(bad) == IF bad = {} THEN w
                      ELSE SliceTo(w, MinOf(bad) - 1) \o SliceFrom(w, MinOf(bad) + 1)
  IN without({i \in 1..Len(w) : ~IsWordChar(SubSeq(w, i, i))})

\* word.replace(/[^\w]/g, ''): every character that is not a word character is
\* removed
RECURSIVE removeAllNonWord(_)
removeAllNonWord(w) ==
  IF Len(w) = 0 THEN ""
  ELSE (IF IsWordChar(SubSeq(w, 1, 1)) THEN SubSeq(w, 1, 1) ELSE "")
       \o removeAllNonWord(SubSeq(w, 2, Len(w)))

\* the members of seq, each once, in the order of their first occurrence (the
\* iteration order of a JavaScript Set)
RECURSIVE distinctInOrder(_, _)
distinctInOrder(seq, seen) ==
  IF Len(seq) = 0 THEN <<>>
  ELSE IF Head(seq) \in seen THEN distinctInOrder(Tail(seq), seen)
  ELSE <<Head(seq)>> \o distinctInOrder(Tail(seq), seen \cup {Head(seq)})

\* the capitalised tokens after the first one, the first non-word character of
\* each removed
extractPotentialCharacterNames(text) ==
  LET capitalized(word) == Len(word) > 0 /\ SubSeq(word, 1, 1) \in UpperSet
      namesAmong(words) ==
        LET isName(i) == capitalized(removeFirstNonWord(words[i]))
            namesAt(at) == [k \in 1..Len(at) |-> removeFirstNonWord(words[at[k]])]
        IN distinctInOrder(namesAt(positionsOf(isName, 2, Len(words))), {})
  IN namesAmong(splitWhitespace(text))

\* the source text of the regular expression countOccurrences builds
wordRegExpSource(word) == "\\b" \o word \o "\\b"

\* countOccurrences(text, word) raises a SyntaxError
countOccurrencesThrows(word) == RegExpThrows(wordRegExpSource(word))

\* countOccurrences(text, word) when it returns
countOccurrences(text, word) == Len(matchWord(text, word))

plotIndicators == <<"remembered", "realized", "discovered", "decided", "planned",
                    "secret", "mission", "quest", "journey", "task", "mystery">>

SentenceEndSet == {".", "!", "?"}

\* text.split(/[.!?]+/).filter(s => s.trim().length > 0)
sentencesOf(text) ==
  LET keep(s) == Len(trim(s)) > 0
  IN SelectSeq(splitRuns(text, SentenceEndSet), keep)

extractPotentialPlotElements(text) ==
  LET hasIndicator(sentence) == containsPatterns(sentence, plotIndicators)
      trimmed(potentialElements) ==
        [k \in 1..Len(potentialElements) |-> trim(potentialElements[k])]
  IN trimmed(SelectSeq(sentencesOf(text), hasIndicator))

UnderdevelopedLimit == 2

\* evaluateGoldenShadowNeed raises: the filter calls countOccurrences on every
\* potential name
evaluateGoldenShadowNeedThrows(text) ==
  LET someThrows(characterNames) ==
        \E k \in 1..Len(characterNames) : countOccurrencesThrows(characterNames[k])
  IN someThrows(extractPotentialCharacterNames(text))

underdevelopedCharactersOf(text) ==
  LET rare(name) == countOccurrences(text, name) <= UnderdevelopedLimit
  IN SelectSeq(extractPotentialCharacterNames(text), rare)

hasUnderdevelopedPlotElements(text) == Len(extractPotentialPlotElements(text)) > 0

evaluateGoldenShadowNeed(text) ==
  LET need(underdevelopedCharacters, underdevelopedPlotElements) ==
        [needLevel |-> IF Len(underdevelopedCharacters) > 0 \/ underdevelopedPlotElements
                       THEN "high" ELSE "low",
         underdevelopedCharacters |-> underdevelopedCharacters,
         hasUnderdevelopedPlotElements |-> underdevelopedPlotElements]
  IN need(underdevelopedCharactersOf(text), hasUnderdevelopedPlotElements(text))

visualPatterns == <<"looked", "saw", "appeared", "watched", "color", "bright", "dark", "shape">>

auditoryPatterns == <<"heard", "sound", "noise", "listen", "whisper", "quiet", "loud", "silence">>

tactilePatterns == <<"felt", "touch", "rough", "smooth", "texture", "warm", "cold", "soft", "hard">>

olfactoryPatterns == <<"smell", "scent", "aroma", "odor", "fragrance", "stench">>

settingPatterns == <<"room", "building", "house", "landscape", "forest", "city", "street",
                     "sky", "mountain">>

RichnessThreshold == 3

evaluateEnvironmentalExpansionNeed(text) ==
  LET \* [a, b, c, d].filter(Boolean).length
      truthyCount(found) == Cardinality({k \in 1..Len(found) : found[k]})
      need(visualDescriptions, auditoryDescriptions, tactileDescriptions,
           olfactoryDescriptions, sensoryRichness, hasSettingDescription) ==
        [needLevel |-> IF sensoryRichness < RichnessThreshold \/ ~hasSettingDescription
                       THEN "high" ELSE "low",
         sensoryRichness |-> sensoryRichness,
         hasSufficientVisualDescriptions |-> visualDescriptions,
         hasSufficientAuditoryDescriptions |-> auditoryDescriptions,
         hasSufficientTactileDescriptions |-> tactileDescriptions,
         hasSufficientOlfactoryDescriptions |-> olfactoryDescriptions,
         hasSettingDescription |-> hasSettingDescription]
      counted(visualDescriptions, auditoryDescriptions, tactileDescriptions,
              olfactoryDescriptions) ==
        need(visualDescriptions, auditoryDescriptions, tactileDescriptions,
             olfactoryDescriptions,
             truthyCount(<<visualDescriptions, auditoryDescriptions, tactileDescriptions,
                           olfactoryDescriptions>>),
             containsPatterns(text, settingPatterns))
  IN counted(containsPatterns(text, visualPatterns), containsPatterns(text, auditoryPatterns),
             containsPatterns(text, tactilePatterns), containsPatterns(text, olfactoryPatterns))

timePatterns == <<"slow", "quickly", "moment", "instant", "suddenly", "time seemed", "freeze">>

actionSensoryPatterns == <<"felt", "heard", "saw", "smell", "taste", "pain", "heart pounding">>

interactionPatterns == <<"against the", "through the", "over the", "under the", "from the">>

evaluateActionSceneNeed(text) ==
  IF ~determineSceneType(text).isAction
  THEN [needLevel |-> "not applicable", isActionScene |-> FALSE,
        hasTimeManipulation |-> FALSE, hasSensoryDetails |-> FALSE,
        hasEnvironmentalInteraction |-> FALSE]
  ELSE LET need(hasTimeManipulation, hasSensoryDetails, hasEnvironmentalInteraction) ==
             [needLevel |-> IF ~hasTimeManipulation \/ ~hasSensoryDetails
                               \/ ~hasEnvironmentalInteraction
                            THEN "high" ELSE "medium",
              isActionScene |-> TRUE,
              hasTimeManipulation |-> hasTimeManipulation,
              hasSensoryDetails |-> hasSensoryDetails,
              hasEnvironmentalInteraction |-> hasEnvironmentalInteraction]
       IN need(containsPatterns(text, timePatterns),
               containsPatterns(text, actionSensoryPatterns),
               containsPatterns(text, interactionPatterns))

transitionPatterns == <<"however", "therefore", "furthermore", "additionally",
                        "consequently", "meanwhile">>

\* the one field of evaluateProseSmoothingNeed the enhancer reads
hasTransitionWords(text) == containsPatterns(text, transitionPatterns)

\* Number.prototype.toFixed(1) of the quotient num / den of two naturals:
\* "NaN" for 0 / 0, "Infinity" for a division of a positive number by 0,
\* else the nearest number of one decimal, the larger one of two equally
\* near.  (The quotients of the model have fewer than 16 in the denominator,
\* so a tie is a multiple of 1/4, which the floating-point quotient holds
\* exactly.)
toFixed1(num, den) ==
  IF den = 0 THEN (IF num = 0 THEN "NaN" ELSE "Infinity")
  ELSE LET digits(tenths) ==
             numberToString(tenths \div 10) \o "." \o numberToString(tenths % 10)
       IN digits((20 * num + den) \div (2 * den))

\* lengths.reduce((sum, len) => sum + len, 0)
RECURSIVE sumOf(_)
sumOf(lengths) == IF lengths = <<>> THEN 0 ELSE lengths[1] + sumOf(Tail(lengths))

\* evaluateProseSmoothingNeed; averageSentenceLength and
\* sentenceLengthVariety are the quotients the code divides out, kept as
\* numerator and denominator: 0 / 0 is NaN, and NaN < 0.3 is false
evaluateProseSmoothingNeed(text) ==
  LET lengthOf(s) == Len(splitWhitespace(s))
      nonBlank(p) == Len(trim(p)) > 0
      assess(sentenceLengths, paragraphs) ==
        LET count == Len(sentenceLengths)
            distinct == Cardinality({sentenceLengths[k] : k \in 1..count})
            lowVariety == count > 0 /\ 10 * distinct < 3 * count
            hasVariedParagraphLength ==
              Cardinality({Len(paragraphs[k]) : k \in 1..Len(paragraphs)}) > 1
        IN [needLevel |-> IF lowVariety \/ ~hasTransitionWords(text)
                             \/ ~hasVariedParagraphLength
                          THEN "high" ELSE "low",
            averageSentenceLength |-> [num |-> sumOf(sentenceLengths), den |-> count],
            sentenceLengthVariety |-> [num |-> distinct, den |-> count],
            hasTransitionWords |-> hasTransitionWords(text),
            hasVariedParagraphLength |-> hasVariedParagraphLength]
      lengthsOf(sentences) == [k \in 1..Len(sentences) |-> lengthOf(sentences[k])]
  IN assess(lengthsOf(sentencesOf(text)), SelectSeq(splitRuns(text, {"\n"}), nonBlank))

\* text.toLowerCase().match(/\b\w+\b/g) || []: the maximal runs of word
\* characters
wordTokens(text) ==
  LET runsOf(low) ==
        LET n == Len(low)
            isW(i) == i >= 1 /\ i <= n /\ SubSeq(low, i, i) \in WordCharSet
            isStart(i) == isW(i) /\ ~isW(i - 1)
            isEnd(i) == isW(i) /\ ~isW(i + 1)
            runs(starts, ends) == [k \in 1..Len(starts) |-> SubSeq(low, starts[k], ends[k])]
        IN runs(positionsOf(isStart, 1, n), positionsOf(isEnd, 1, n))
  IN runsOf(toLowerCase(text))

MinWordLength == 3

MaxIndexDigits == 9

\* a property key that is an array index (a canonical decimal below 2^32 - 1):
\* Object.entries lists these first, in increasing numeric order, before the
\* other keys in insertion order.  Every canonical decimal of at most nine
\* digits is one; the texts of the model have no longer digit strings
isArrayIndex(key) ==
  /\ Len(key) >= 1 /\ Len(key) <= MaxIndexDigits
  /\ \A i \in 1..Len(key) : SubSeq(key, i, i) \in CharsOf(DigitChars)
  /\ (Len(key) > 1 => SubSeq(key, 1, 1) # "0")

\* the limit of evaluateRepetitionSeverity: count > 3
SeverityWordLimit == 3

RepeatedWordLimit == 2

TopRepeatedWords == 10

\* findRepeatedWords: the words longer than three characters that occur more
\* than twice, as <<word, count>> entries; Object.entries lists array-index
\* keys first (increasing), then the other keys in insertion order, and the
\* stable sort by decreasing count keeps that order among equal counts
findRepeatedWords(text) ==
  LET isLong(w) == Len(w) > MinWordLength
      \* words: the filtered tokens
      repeatedAmong(words) ==
        LET count(w) == Cardinality({k \in 1..Len(words) : words[k] = w})
            firstAt(w) == MinOf({k \in 1..Len(words) : words[k] = w})
            entryBefore(a, b) ==
              IF isArrayIndex(a) /\ isArrayIndex(b) THEN ToNat(a) < ToNat(b)
              ELSE IF isArrayIndex(a) THEN TRUE
              ELSE IF isArrayIndex(b) THEN FALSE
              ELSE firstAt(a) < firstAt(b)
            ahead(a, b) == count(a) > count(b) \/ (count(a) = count(b) /\ entryBefore(a, b))
            \* repeated: the words with count > 2
            sortedOf(repeated) ==
              LET rank(w) == 1 + Cardinality({v \in repeated : ahead(v, w)})
                  entry(w) == <<w, count(w)>>
              IN [k \in 1..Cardinality(repeated) |->
                    entry(CHOOSE v \in repeated : rank(v) = k)]
            top(sorted) == SubSeq(sorted, 1, MinOf({Len(sorted), TopRepeatedWords}))
        IN top(sortedOf({w \in {words[k] : k \in 1..Len(words)} :
                           count(w) > RepeatedWordLimit}))
  IN repeatedAmong(SelectSeq(wordTokens(text), isLong))

ShortSentenceWords == 8

MediumSentenceWords == 15

RepeatedStructureLimit == 2

TopStructures == 3

\* findRepeatedSentenceStructures: the patterns firstWord-lengthCategory that
\* more than two sentences have, as <<pattern, count>> entries in the order of
\* Object.entries (insertion order: no pattern is an array index, each holds
\* a "-") under the stable sort by decreasing count, the first three of them.
\* The first word is taken of the trimmed sentence, the length of the
\* sentence as it was cut out of the text
findRepeatedSentenceStructures(text) ==
  LET patternOf(sentence) ==
        LET firstWord == toLowerCase(splitWhitespace(trim(sentence))[1])
            categoryOf(length) ==
              IF length < ShortSentenceWords THEN "short"
              ELSE IF length < MediumSentenceWords THEN "medium" ELSE "long"
        IN firstWord \o "-" \o categoryOf(Len(splitWhitespace(sentence)))
      \* keys: the pattern of each sentence, in the order of the sentences
      repeatedAmong(keys) ==
        LET count(p) == Cardinality({k \in 1..Len(keys) : keys[k] = p})
            firstAt(p) == MinOf({k \in 1..Len(keys) : keys[k] = p})
            ahead(a, b) == count(a) > count(b) \/ (count(a) = count(b) /\ firstAt(a) < firstAt(b))
            sortedOf(repeated) ==
              LET rank(p) == 1 + Cardinality({v \in repeated : ahead(v, p)})
                  entry(p) == <<p, count(p)>>
              IN [k \in 1..Cardinality(repeated) |->
                    entry(CHOOSE v \in repeated : rank(v) = k)]
            top(sorted) == SubSeq(sorted, 1, MinOf({Len(sorted), TopStructures}))
        IN top(sortedOf({p \in {keys[k] : k \in 1..Len(keys)} :
                           count(p) > RepeatedStructureLimit}))
      patternsOf(sentences) == [k \in 1..Len(sentences) |-> patternOf(sentences[k])]
  IN repeatedAmong(patternsOf(sentencesOf(text)))

firstPersonPronouns == <<"I", "me", "my", "mine", "we", "us", "our", "ours">>

secondPersonPronouns == <<"you", "your", "yours">>

thirdPersonPronouns == <<"he", "him", "his", "she", "her", "hers", "they", "them", "their",
                         "theirs">>

\* Array.prototype.includes
arrayIncludes(arr, x) == \E k \in 1..Len(arr) : arr[k] = x

countPronouns(text) ==
  LET \* cleaned: the words, lower-cased and stripped of non-word characters
      counts(cleaned) ==
        LET among(list) == Cardinality({k \in 1..Len(cleaned) :
                                          arrayIncludes(list, cleaned[k])})
        IN [firstPerson |-> among(firstPersonPronouns),
            secondPerson |-> among(secondPersonPronouns),
            thirdPerson |-> among(thirdPersonPronouns)]
      clean(words) == [k \in 1..Len(words) |-> removeAllNonWord(words[k])]
  IN counts(clean(splitWhitespace(toLowerCase(text))))

identifyCharacterFocus(text) ==
  LET focus(potentialNames, pronounCounts) ==
        LET firstPersonPOV == pronounCounts.firstPerson > 0
            thirdPersonPOV == pronounCounts.thirdPerson > 0
        IN [potentialCharacters |-> potentialNames,
            pointOfView |-> IF firstPersonPOV THEN "first-person"
                            ELSE IF thirdPersonPOV THEN "third-person" ELSE "unclear",
            pronounDistribution |-> pronounCounts]
  IN focus(extractPotentialCharacterNames(text), countPronouns(text))

(***************************************************************************)
(* The report of analyzeText.                                              *)
(***************************************************************************)
\* Object.entries(frequency).filter(count > limit) under the stable sort by
\* decreasing count, then .slice(0, top), as <<key, count>> entries; keys
\* are the keys in the order the loop counted them (array-index keys come
\* first in Object.entries, then the others in insertion order)
sortedEntries(keys, limit, top) ==
  LET count(w) == Cardinality({k \in 1..Len(keys) : keys[k] = w})
      firstAt(w) == MinOf({k \in 1..Len(keys) : keys[k] = w})
      entryBefore(a, b) ==
        IF isArrayIndex(a) /\ isArrayIndex(b) THEN ToNat(a) < ToNat(b)
        ELSE IF isArrayIndex(a) THEN TRUE
        ELSE IF isArrayIndex(b) THEN FALSE
        ELSE firstAt(a) < firstAt(b)
      ahead(a, b) == count(a) > count(b) \/ (count(a) = count(b) /\ entryBefore(a, b))
      sortedOf(kept) ==
        LET rank(w) == 1 + Cardinality({v \in kept : ahead(v, w)})
            entry(w) == <<w, count(w)>>
        IN [k \in 1..Cardinality(kept) |-> entry(CHOOSE v \in kept : rank(v) = k)]
      first(sorted) == SubSeq(sorted, 1, MinOf({Len(sorted), top}))
  IN first(sortedOf({w \in {keys[k] : k \in 1..Len(keys)} : count(w) > limit}))

determineNarrativePosition(text) ==
  LET position(hasIntroductionMarkers, hasClimaxMarkers, hasResolutionMarkers) ==
        [position |-> IF hasResolutionMarkers THEN "resolution/ending"
                      ELSE IF hasClimaxMarkers THEN "climax/turning point"
                      ELSE IF hasIntroductionMarkers THEN "beginning/introduction"
                      ELSE "middle/developing",
         isIntroduction |-> hasIntroductionMarkers,
         isClimax |-> hasClimaxMarkers,
         isResolution |-> hasResolutionMarkers]
  IN position(
       containsPatterns(text, <<"began", "started", "first time", "introduction", "met",
                                "once upon">>),
       containsPatterns(text, <<"finally", "suddenly", "at last", "climax", "confrontation",
                                "face to face", "showdown">>),
       containsPatterns(text, <<"ended", "finished", "resolved", "conclusion", "epilogue",
                                "aftermath", "settled">>))

analyzeMoodAndTone(text) ==
  LET mood(positiveWords, negativeWords, suspenseWords) ==
        [mood |-> IF suspenseWords THEN "suspenseful"
                  ELSE IF negativeWords THEN "negative"
                  ELSE IF positiveWords THEN "positive" ELSE "neutral",
         hasPositiveElements |-> positiveWords,
         hasNegativeElements |-> negativeWords,
         hasSuspenseElements |-> suspenseWords]
  IN mood(
       containsPatterns(text, <<"happy", "joy", "love", "peace", "hope", "exciting",
                                "beautiful", "pleased">>),
       containsPatterns(text, <<"sad", "fear", "anger", "hate", "despair", "darkness",
                                "tragic", "grim">>),
       containsPatterns(text, <<"mysterious", "suspense", "tension", "anxious", "uncertain",
                                "danger", "threat">>))

\* the words that occur more than once taken as repeated
evaluateRepetitionSeverity_FromTwo(text) ==
  LET isLong(w) == Len(w) > MinWordLength
      severity(repeatedWords) ==
        [severity |-> IF Len(repeatedWords) > 5 THEN "high"
                      ELSE IF Len(repeatedWords) > 2 THEN "medium" ELSE "low",
         repeatedWordCount |-> Len(repeatedWords),
         topRepeatedWords |-> SubSeq(repeatedWords, 1, MinOf({Len(repeatedWords), 5}))]
      all(words) == sortedEntries(words, 1, Len(words))
  IN severity(all(SelectSeq(wordTokens(text), isLong)))

\* evaluateRepetitionSeverity: the words longer than three characters that
\* occur more than three times; topRepeatedWords are the first five by count
evaluateRepetitionSeverity(text) ==
  LET isLong(w) == Len(w) > MinWordLength
      severity(repeatedWords) ==
        [severity |-> IF Len(repeatedWords) > 5 THEN "high"
                      ELSE IF Len(repeatedWords) > 2 THEN "medium" ELSE "low",
         repeatedWordCount |-> Len(repeatedWords),
         topRepeatedWords |-> SubSeq(repeatedWords, 1, MinOf({Len(repeatedWords), 5}))]
      all(words) == sortedEntries(words, SeverityWordLimit, Len(words))
  IN severity(all(SelectSeq(wordTokens(text), isLong)))

\* findRepeatedPhrases: the lower-cased phrases of three consecutive pieces
\* of text.split(/\s+/) that occur more than once, the first five by count
findRepeatedPhrases(text) ==
  LET phrasesOf(words) ==
        [i \in 1..(IF Len(words) > 2 THEN Len(words) - 2 ELSE 0) |->
           toLowerCase(words[i] \o " " \o words[i + 1] \o " " \o words[i + 2])]
  IN sortedEntries(phrasesOf(splitWhitespace(text)), 1, 5)

\* analyzeText raises instead of returning a report: of everything it calls,
\* only countOccurrences (under evaluateGoldenShadowNeed) builds a regular
\* expression from the text
analyzeTextThrows(text) == evaluateGoldenShadowNeedThrows(text)

\* performEnhancementEvaluation raises for the same reason
performEnhancementEvaluationThrows(text) == evaluateGoldenShadowNeedThrows(text)

\* generateReport: the markdown report
generateReport(text, wordCount, charCount, contextualAssessment, enhancementEvaluation, repetitionPatterns) ==
  LET present(found) == IF found THEN "Present" ELSE "Absent"
      strong(found) == IF found THEN "Strong" ELSE "Weak"
      sufficient(found) == IF ~found THEN "Needs improvement" ELSE "Sufficient"
      \* names.join(", ") || "None identified"
      listed(names) == IF join(names, ", ") = "" THEN "None identified" ELSE join(names, ", ")
      actionLines(need) ==
        IF need.isActionScene
        THEN "- **Need Level**: " \o need.needLevel
             \o "\n- **Time Manipulation**: " \o present(need.hasTimeManipulation)
             \o "\n- **Sensory Details**: " \o present(need.hasSensoryDetails)
             \o "\n- **Environmental Interaction**: "
             \o present(need.hasEnvironmentalInteraction)
        ELSE ""
      \* items.map(item => `${lead}${item[1]}${mid}${item[2]} times)`).join('\n')
      itemLines(items, lead, mid) ==
        join([k \in 1..Len(items) |->
                lead \o items[k][1] \o mid \o numberToString(items[k][2]) \o " times)"], "\n")
      orNone(items, lead, mid, none) ==
        IF Len(items) > 0 THEN itemLines(items, lead, mid) ELSE none
  IN
    "# UNO Analysis Report\n\n" \o "## Text Statistics\n" \o "- **Original Word Count**: "
     \o numberToString(wordCount) \o "\n- **Original Character Count**: "
     \o numberToString(charCount) \o "\n- **Target Word Count (200%)**: "
     \o numberToString(2 * wordCount) \o "\n- **Target Character Count (200%)**: "
     \o numberToString(2 * charCount) \o "\n\n## Contextual Assessment\n\n"
     \o "### Narrative Position\n" \o "- **Position**: "
     \o contextualAssessment.narrativePosition.position \o "\n- **Introduction Markers**: "
     \o present(contextualAssessment.narrativePosition.isIntroduction)
     \o "\n- **Climax Markers**: " \o present(contextualAssessment.narrativePosition.isClimax)
     \o "\n- **Resolution Markers**: "
     \o present(contextualAssessment.narrativePosition.isResolution)
     \o "\n\n### Character Focus\n" \o "- **Point of View**: "
     \o contextualAssessment.characterFocus.pointOfView \o "\n- **Potential Characters**: "
     \o listed(contextualAssessment.characterFocus.potentialCharacters)
     \o "\n- **Pronoun Distribution**:\n" \o "  - First Person: "
     \o numberToString(contextualAssessment.characterFocus.pronounDistribution.firstPerson)
     \o "\n  - Second Person: "
     \o numberToString(contextualAssessment.characterFocus.pronounDistribution.secondPerson)
     \o "\n  - Third Person: "
     \o numberToString(contextualAssessment.characterFocus.pronounDistribution.thirdPerson)
     \o "\n\n### Scene Type\n" \o "- **Dominant Type**: "
     \o contextualAssessment.sceneType.dominantType \o "\n- **Action Elements**: "
     \o strong(contextualAssessment.sceneType.isAction) \o "\n- **Dialogue Elements**: "
     \o strong(contextualAssessment.sceneType.isDialogue) \o "\n- **Exposition Elements**: "
     \o strong(contextualAssessment.sceneType.isExposition) \o "\n\n### Mood and Tone\n"
     \o "- **Dominant Mood**: " \o contextualAssessment.moodAndTone.mood
     \o "\n- **Positive Elements**: "
     \o present(contextualAssessment.moodAndTone.hasPositiveElements)
     \o "\n- **Negative Elements**: "
     \o present(contextualAssessment.moodAndTone.hasNegativeElements)
     \o "\n- **Suspense Elements**: "
     \o present(contextualAssessment.moodAndTone.hasSuspenseElements)
     \o "\n\n## Enhancement Recommendations\n\n" \o "### Golden Shadow Enhancement\n"
     \o "- **Need Level**: " \o enhancementEvaluation.needsGoldenShadow.needLevel
     \o "\n- **Underdeveloped Characters**: "
     \o listed(enhancementEvaluation.needsGoldenShadow.underdevelopedCharacters)
     \o "\n- **Underdeveloped Plot Elements**: "
     \o present(enhancementEvaluation.needsGoldenShadow.hasUnderdevelopedPlotElements)
     \o "\n\n### Environmental Expansion\n" \o "- **Need Level**: "
     \o enhancementEvaluation.needsEnvironmentalExpansion.needLevel
     \o "\n- **Sensory Richness (0-4)**: "
     \o numberToString(enhancementEvaluation.needsEnvironmentalExpansion.sensoryRichness)
     \o "\n- **Setting Description**: "
     \o present(enhancementEvaluation.needsEnvironmentalExpansion.hasSettingDescription)
     \o "\n- **Areas to Enhance**:\n" \o "  - Visual: "
     \o sufficient(enhancementEvaluation.needsEnvironmentalExpansion.hasSufficientVisualDescriptions)
     \o "\n  - Auditory: "
     \o sufficient(enhancementEvaluation.needsEnvironmentalExpansion.hasSufficientAuditoryDescriptions)
     \o "\n  - Tactile: "
     \o sufficient(enhancementEvaluation.needsEnvironmentalExpansion.hasSufficientTactileDescriptions)
     \o "\n  - Olfactory: "
     \o sufficient(enhancementEvaluation.needsEnvironmentalExpansion.hasSufficientOlfactoryDescriptions)
     \o "\n\n### Action Scene Enhancement\n" \o "- **Applicability**: "
     \o (IF enhancementEvaluation.needsActionSceneEnhancement.isActionScene THEN "Applicable" ELSE "Not applicable")
     \o "\n" \o actionLines(enhancementEvaluation.needsActionSceneEnhancement)
     \o "\n\n### Prose Smoothing\n" \o "- **Need Level**: "
     \o enhancementEvaluation.needsProseSmoothening.needLevel
     \o "\n- **Average Sentence Length**: "
     \o toFixed1(enhancementEvaluation.needsProseSmoothening.averageSentenceLength.num, enhancementEvaluation.needsProseSmoothening.averageSentenceLength.den)
     \o " words\n" \o "- **Sentence Length Variety**: "
     \o toFixed1(100 * enhancementEvaluation.needsProseSmoothening.sentenceLengthVariety.num, enhancementEvaluation.needsProseSmoothening.sentenceLengthVariety.den)
     \o "%\n" \o "- **Transition Words**: "
     \o present(enhancementEvaluation.needsProseSmoothening.hasTransitionWords)
     \o "\n- **Paragraph Length Variety**: "
     \o present(enhancementEvaluation.needsProseSmoothening.hasVariedParagraphLength)
     \o "\n\n### Repetition Elimination\n" \o "- **Severity**: "
     \o enhancementEvaluation.repetitionSeverity.severity \o "\n- **Repeated Word Count**: "
     \o numberToString(enhancementEvaluation.repetitionSeverity.repeatedWordCount)
     \o "\n- **Top Repeated Words**:\n"
     \o itemLines(enhancementEvaluation.repetitionSeverity.topRepeatedWords, "  - \"", "\" (")
     \o "\n\n## Repetition Patterns\n\n" \o "### Repeated Words\n"
     \o orNone(repetitionPatterns.repeatedWords, "- \"", "\" (", "- No significant word repetition detected")
     \o "\n\n### Repeated Phrases\n"
     \o orNone(repetitionPatterns.repeatedPhrases, "- \"", "\" (", "- No significant phrase repetition detected")
     \o "\n\n### Repeated Sentence Structures\n"
     \o orNone(repetitionPatterns.repeatedSentenceStructures, "- ", " pattern (", "- No significant sentence structure repetition detected")
     \o "\n"

performContextualAssessment(text) ==
  [narrativePosition |-> determineNarrativePosition(text),
   characterFocus |-> identifyCharacterFocus(text),
   sceneType |-> determineSceneType(text),
   moodAndTone |-> analyzeMoodAndTone(text)]

performEnhancementEvaluation(text) ==
  [needsGoldenShadow |-> evaluateGoldenShadowNeed(text),
   needsEnvironmentalExpansion |-> evaluateEnvironmentalExpansionNeed(text),
   needsActionSceneEnhancement |-> evaluateActionSceneNeed(text),
   needsProseSmoothening |-> evaluateProseSmoothingNeed(text),
   repetitionSeverity |-> evaluateRepetitionSeverity(text)]

identifyRepetitionPatterns(text) ==
  [repeatedWords |-> findRepeatedWords(text),
   repeatedPhrases |-> findRepeatedPhrases(text),
   repeatedSentenceStructures |-> findRepeatedSentenceStructures(text)]

\* the report analyzeText returns when it does not raise
analyzeText(text) ==
  generateReport(text, countWords(text), Len(text), performContextualAssessment(text),
                 performEnhancementEvaluation(text), identifyRepetitionPatterns(text))

(***************************************************************************)
(* EnhancementProcessor (src/src/enhancer.ts).                             *)
(***************************************************************************)
ParagraphBreak == "\n\n"

\* enhancedText.split('\n\n')
paragraphsOf(text) == splitStr(text, ParagraphBreak)

\* paragraphs.splice(index, 0, item), index counted from 0
spliceIn(paragraphs, index, item) ==
  SubSeq(paragraphs, 1, index) \o <<item>> \o SubSeq(paragraphs, index + 1, Len(paragraphs))

MinNat(a, b) == IF a < b THEN a ELSE b

\* the character development set off as a paragraph of its own
characterAddition_OwnParagraph(character) ==
  ParagraphBreak \o character \o "'s expression betrayed a hint of the complex emotions beneath the surface. There was history there, untold stories written in the subtle lines around the eyes and the particular way they held their shoulders."

characterAddition(character) ==
  " " \o character \o "'s expression betrayed a hint of the complex emotions beneath the surface. There was history there, untold stories written in the subtle lines around the eyes and the particular way they held their shoulders."

plotAddition ==
  "The implications of recent events weighed heavily, connections forming between seemingly disparate threads. There was more at stake than initially apparent, layers of meaning and consequence that stretched beyond the immediate moment. What might have seemed a small decision now cast a longer shadow, its significance magnified by context and circumstance."

\* one round of the loop over the underdeveloped characters: the addition goes
\* in front of the first line break after the first mention of the character
\* in the text enhanced so far, or at its end
developCharacter(enhancedText, character) ==
  LET insertAt(insertPosition) ==
        SliceTo(enhancedText, insertPosition) \o characterAddition(character)
        \o SliceFrom(enhancedText, insertPosition + 1)
      endingAt(paragraphEnd) ==
        insertAt(IF paragraphEnd > 0 THEN paragraphEnd - 1 ELSE Len(enhancedText))
      develop(mentions) ==
        IF Len(mentions) = 0 THEN enhancedText
        ELSE endingAt(indexOf(enhancedText, "\n", mentions[1]))
  IN develop(matchWord(enhancedText, character))

RECURSIVE developCharacters(_, _)
developCharacters(enhancedText, characters) ==
  IF Len(characters) = 0 THEN enhancedText
  ELSE developCharacters(developCharacter(enhancedText, Head(characters)), Tail(characters))

PlotInsertIndex == 2

applyGoldenShadowEnhancement(text) ==
  LET withPlot(paragraphs) ==
        join(spliceIn(paragraphs, MinNat(PlotInsertIndex, Len(paragraphs)), plotAddition),
             ParagraphBreak)
      enhance(developed) ==
        IF hasUnderdevelopedPlotElements(text)
        THEN withPlot(splitStr(developed, ParagraphBreak))
        ELSE developed
  IN enhance(developCharacters(text, underdevelopedCharactersOf(text)))

settingKeywords == <<"room", "building", "house", "landscape", "forest", "city", "street",
                     "sky", "mountain", "field", "beach", "ocean", "river", "lake">>

visualAddition ==
  "The light filtered through in muted beams, casting long shadows across the space and highlighting dust motes that danced in perpetual, aimless motion. Colors shifted subtly with each passing cloud, from warm amber to cool silver."

auditoryAddition ==
  " The ambient sounds formed a textured backdrop-distant conversations merging with closer movements, occasional laughter punctuating the steady rhythm of existence. Somewhere, barely perceptible, a faint mechanical hum provided continuity."

tactileAddition ==
  " The air carried a distinct weight and temperature, cool against exposed skin but not uncomfortable. Surfaces presented a contrast of textures-smooth here, rough there, with unexpected variations that registered subtly against fingertips."

olfactoryAddition ==
  " Scents layered themselves in complex patterns: the sharp freshness of recently disturbed greenery, underlying notes of dampness from recent rain, and traces of something indefinable but distinctly organic."

objectParagraph ==
  "A single, unremarkable object stood witness to it all-an old timepiece resting on the nearest surface. Its brass casing had developed a patina that spoke of countless hands and years of existence. The once-precise mechanism now ticked with a slight arrhythmia, each sound a miniature testament to entropy's patient work. Small scratches mapped an unknown history across its face, while fingerprints both fresh and ancient layered its surface with human testimony."

applyEnvironmentalExpansion(text) ==
  LET expand(environmentalNeeds) ==
        LET environmentalAddition ==
              (IF ~environmentalNeeds.hasSufficientVisualDescriptions
               THEN visualAddition ELSE "")
              \o (IF ~environmentalNeeds.hasSufficientAuditoryDescriptions
                  THEN auditoryAddition ELSE "")
              \o (IF ~environmentalNeeds.hasSufficientTactileDescriptions
                  THEN tactileAddition ELSE "")
              \o (IF ~environmentalNeeds.hasSufficientOlfactoryDescriptions
                  THEN olfactoryAddition ELSE "")
            \* settingParagraph is counted from 1
            enrichAt(paragraphs, settingParagraph) ==
              join(spliceIn([paragraphs EXCEPT ![settingParagraph] =
                                                 @ \o environmentalAddition],
                            settingParagraph, objectParagraph),
                   ParagraphBreak)
            \* the first paragraph that mentions a setting, else the second one,
            \* else the only one
            locate(paragraphs, mentionsSetting) ==
              enrichAt(paragraphs, IF mentionsSetting # {} THEN MinOf(mentionsSetting)
                                   ELSE MinNat(1, Len(paragraphs) - 1) + 1)
            enrich(paragraphs) ==
              locate(paragraphs, {i \in 1..Len(paragraphs) :
                                    containsPatterns(paragraphs[i], settingKeywords)})
        IN IF ~environmentalNeeds.hasSettingDescription
              \/ environmentalNeeds.sensoryRichness < RichnessThreshold
           THEN enrich(splitStr(text, ParagraphBreak))
           ELSE text
  IN expand(evaluateEnvironmentalExpansionNeed(text))

(***************************************************************************)
(* Math.random(): a draw is one of the RandMod values r / RandMod, r in    *)
(* 0..RandMod-1; every call draws afresh.                                  *)
(***************************************************************************)
RandMod == 4

RandomDraws == 0..(RandMod - 1)

\* Math.random() > 0.5
exceedsHalf(r) == 2 * r > RandMod

\* Math.floor(Math.random() * n)
randomIndex(r, n) == (r * n) \div RandMod

\* the time manipulation set off as a paragraph of its own
timeAddition_OwnParagraph ==
  ParagraphBreak \o "Time seemed to slow, each second stretching into an eternity of hyperclarity where every detail registered with impossible precision. The moment hung suspended in a bubble of heightened awareness."

timeAddition ==
  " Time seemed to slow, each second stretching into an eternity of hyperclarity where every detail registered with impossible precision. The moment hung suspended in a bubble of heightened awareness."

sensoryAddition ==
  " A surge of adrenaline sharpened every sense-the thundering heartbeat drowning out all but the most immediate sounds, the metallic taste of fear coating the tongue, muscles burning with the strain of movement pushed beyond normal limits."

interactionAddition ==
  " The environment itself became both obstacle and weapon, surfaces transforming into tactical elements to be used or avoided. Each interaction with the surroundings sent cascades of secondary effects rippling outward-dust clouds rising from impact, objects clattering aside, surfaces trembling under sudden force."

stillnessAddition ==
  " Then, briefly, a moment of perfect stillness-a single heartbeat of absolute clarity before motion erupted again with renewed intensity."

\* the paragraphs (counted from 1) that contain an action verb, in order
actionParagraphIndices(text) ==
  LET among(paragraphs) ==
        LET hasActionVerb(i) == containsPatterns(paragraphs[i], actionVerbList)
        IN positionsOf(hasActionVerb, 1, Len(paragraphs))
  IN among(splitStr(text, ParagraphBreak))

\* the number of Math.random() calls of applyActionSceneEnhancement(text)
actionDrawCount(text) ==
  IF determineSceneType(text).isAction THEN Len(actionParagraphIndices(text)) ELSE 0

\* random[k] is the draw made for the k-th action paragraph
applyActionSceneEnhancement(text, random) ==
  LET enhance(actionSceneNeeds, paragraphs, indices) ==
        LET additions(k) ==
              (IF ~actionSceneNeeds.hasTimeManipulation THEN timeAddition ELSE "")
              \o (IF ~actionSceneNeeds.hasSensoryDetails THEN sensoryAddition ELSE "")
              \o (IF ~actionSceneNeeds.hasEnvironmentalInteraction
                  THEN interactionAddition ELSE "")
              \o (IF exceedsHalf(random[k]) THEN stillnessAddition ELSE "")
            enhanced == [i \in 1..Len(paragraphs) |->
                           IF \E k \in 1..Len(indices) : indices[k] = i
                           THEN paragraphs[i]
                                \o additions(CHOOSE k \in 1..Len(indices) : indices[k] = i)
                           ELSE paragraphs[i]]
        IN IF ~actionSceneNeeds.isActionScene THEN text
           ELSE IF Len(indices) > 0 THEN join(enhanced, ParagraphBreak) ELSE text
  IN enhance(evaluateActionSceneNeed(text), splitStr(text, ParagraphBreak),
             actionParagraphIndices(text))

transitions == <<"Meanwhile, ", "Furthermore, ", "In contrast, ", "Additionally, ",
                 "Nevertheless, ", "Consequently, ", "Despite this, ", "Indeed, ",
                 "Even so, ", "Simultaneously, ">>

\* the number of Math.random() calls of applyProseSmoothening(text): two for
\* every paragraph after the first
proseDrawCount(text) ==
  IF hasTransitionWords(text) THEN 0 ELSE 2 * (Len(splitStr(text, ParagraphBreak)) - 1)

\* the loop beginning at the first paragraph (i = 0), which shares the draws of
\* the second
applyProseSmoothening_FromFirst(text, random) ==
  LET enhancedParagraphs(paragraphs) ==
        [i \in 1..Len(paragraphs) |->
           IF Len(paragraphs) > 1
              /\ exceedsHalf(random[IF i = 1 THEN 2 ELSE 2 * i - 2])
           THEN transitions[randomIndex(random[IF i = 1 THEN 1 ELSE 2 * i - 3],
                                        Len(transitions)) + 1]
                \o paragraphs[i]
           ELSE paragraphs[i]]
  IN IF ~hasTransitionWords(text)
     THEN join(enhancedParagraphs(splitStr(text, ParagraphBreak)), ParagraphBreak)
     ELSE text

\* the paragraphs joined by a single line break
applyProseSmoothening_SingleBreak(text, random) ==
  LET enhancedParagraphs(paragraphs) ==
        [i \in 1..Len(paragraphs) |->
           IF i > 1 /\ exceedsHalf(random[2 * i - 2])
           THEN transitions[randomIndex(random[2 * i - 3], Len(transitions)) + 1]
                \o paragraphs[i]
           ELSE paragraphs[i]]
  IN IF ~hasTransitionWords(text)
     THEN join(enhancedParagraphs(splitStr(text, ParagraphBreak)), "\n")
     ELSE text

\* random[2i - 3] picks the transition of the i-th paragraph and random[2i - 2]
\* decides whether it is added
applyProseSmoothening(text, random) ==
  LET enhancedParagraphs(paragraphs) ==
        [i \in 1..Len(paragraphs) |->
           IF i > 1 /\ exceedsHalf(random[2 * i - 2])
           THEN transitions[randomIndex(random[2 * i - 3], Len(transitions)) + 1]
                \o paragraphs[i]
           ELSE paragraphs[i]]
  IN IF ~hasTransitionWords(text)
     THEN join(enhancedParagraphs(splitStr(text, ParagraphBreak)), ParagraphBreak)
     ELSE text

\* the lists with phrases of several words for "looked"
wordReplacements_WithPhrases ==
  [looked |-> <<"took a look", "cast a glance", "kept an eye", "had a look", "gave a stare",
                "set eyes", "took stock">>,
   walked |-> <<"strode", "ambled", "moved", "stepped", "paced", "proceeded", "advanced">>,
   said |-> <<"remarked", "stated", "explained", "noted", "commented", "expressed", "declared">>,
   felt |-> <<"experienced", "sensed", "perceived", "noticed", "recognized", "registered">>,
   saw |-> <<"noticed", "spotted", "observed", "caught sight of", "glimpsed", "discerned">>,
   went |-> <<"proceeded", "moved", "traveled", "journeyed", "progressed", "headed">>,
   thought |-> <<"considered", "reflected", "contemplated", "pondered", "mused", "supposed">>,
   knew |-> <<"understood", "recognized", "realized", "comprehended", "acknowledged">>,
   heard |-> <<"detected", "caught", "discerned", "distinguished", "perceived">>,
   face |-> <<"countenance", "visage", "features", "expression", "aspect">>]

wordReplacements ==
  [looked |-> <<"gazed", "glanced", "observed", "stared", "watched", "eyed", "examined">>,
   walked |-> <<"strode", "ambled", "moved", "stepped", "paced", "proceeded", "advanced">>,
   said |-> <<"remarked", "stated", "explained", "noted", "commented", "expressed", "declared">>,
   felt |-> <<"experienced", "sensed", "perceived", "noticed", "recognized", "registered">>,
   saw |-> <<"noticed", "spotted", "observed", "caught sight of", "glimpsed", "discerned">>,
   went |-> <<"proceeded", "moved", "traveled", "journeyed", "progressed", "headed">>,
   thought |-> <<"considered", "reflected", "contemplated", "pondered", "mused", "supposed">>,
   knew |-> <<"understood", "recognized", "realized", "comprehended", "acknowledged">>,
   heard |-> <<"detected", "caught", "discerned", "distinguished", "perceived">>,
   face |-> <<"countenance", "visage", "features", "expression", "aspect">>]

ShortWordLength == 4

\* the loop skips the word: word.length <= 4 || !wordReplacements[word]
skipsWord(word) == Len(word) <= ShortWordLength \/ word \notin DOMAIN wordReplacements

\* every occurrence is replaced
replaceCountOf_All(n) == n

\* Math.ceil(n * 0.6)
replaceCountOf(n) == (6 * n + 9) \div 10

\* the sets of match indices (counted from 0) the while loop can end with: it
\* draws indices until replaceCount different ones are in the Set
indexChoices(n) == {S \in SUBSET (0..(n - 1)) : Cardinality(S) = replaceCountOf(n)}

\* the replacement left as the list has it
capitalize_AsListed(w) == w

\* replacement.charAt(0).toUpperCase() + replacement.slice(1)
capitalize(w) == UpperChar(CharAt(w, 1)) \o SliceFrom(w, 2)

\* the chosen matches replaced from the last one to the first; random[j] is the
\* draw of the j-th replacement made.  The result is the new text and the
\* replacements made, each an entry
\* [word, index, at, matchedText, replacement]
RECURSIVE replaceChosen(_, _, _, _, _, _)
replaceChosen(out, word, matches, order, random, j) ==
  IF j > Len(order) THEN out
  ELSE LET index == order[j]
           at == matches[index + 1]
           matchedText == SubSeq(out.text, at, at + Len(word) - 1)
           replacements == wordReplacements[word]
           replacementWord == replacements[randomIndex(random[j], Len(replacements)) + 1]
           replacement == IF CharAt(matchedText, 1) = UpperChar(CharAt(matchedText, 1))
                          THEN capitalize(replacementWord) ELSE replacementWord
           entry == [word |-> word, index |-> index, at |-> at,
                     matchedText |-> matchedText, replacement |-> replacement,
                     occurrences |-> Len(matches)]
       IN replaceChosen([text |-> SliceTo(out.text, at - 1) \o replacement
                                  \o SliceFrom(out.text, at + Len(word)),
                         replaced |-> Append(out.replaced, entry)],
                        word, matches, order, random, j + 1)

\* the members of the set S of naturals below n, in decreasing order
descending(S, n) ==
  LET chosen(i) == i \in S
      reversed(up) == [k \in 1..Len(up) |-> up[Len(up) + 1 - k]]
  IN reversed(positionsOf(chosen, 0, n - 1))

\* what one round of the loop over the repeated words can leave
wordOutcomes(out, word) ==
  IF skipsWord(word) THEN {out}
  ELSE LET outcomesFor(matches) ==
             {replaceChosen(out, word, matches, descending(chosen, Len(matches)), random, 1) :
                chosen \in indexChoices(Len(matches)),
                random \in [1..replaceCountOf(Len(matches)) -> RandomDraws]}
       IN outcomesFor(matchWord(out.text, word))

RECURSIVE repetitionOutcomes(_, _, _)
repetitionOutcomes(outs, repeatedWords, k) ==
  IF k > Len(repeatedWords) THEN outs
  ELSE repetitionOutcomes(UNION {wordOutcomes(out, toLowerCase(repeatedWords[k][1])) :
                                   out \in outs},
                          repeatedWords, k + 1)

\* everything applyRepetitionElimination(text) can return, with the
\* replacements made on the way
applyRepetitionElimination(text) ==
  repetitionOutcomes({[text |-> text, replaced |-> <<>>]}, findRepeatedWords(text), 1)

\* Math.round((a / b) * 100) as the template prints it.  The division by 0
\* gives NaN (0 / 0) or Infinity; where a / b * 100 lies exactly halfway between
\* two integers the floating-point product can fall on either side, so both
\* roundings are outcomes
percentOutcomes(a, b) ==
  IF b = 0 THEN {IF a = 0 THEN "NaN" ELSE "Infinity"}
  ELSE IF (200 * a) % (2 * b) = b
       THEN {numberToString((100 * a) \div b), numberToString((100 * a) \div b + 1)}
       ELSE {numberToString(RoundPercent(a, b))}

techniqueNames ==
  [enableGoldenShadow |-> "Golden Shadow Enhancement",
   enableEnvironmental |-> "Environmental Expansion",
   enableActionScene |-> "Action Scene Enhancement",
   enableProseSmoother |-> "Prose Smoothing",
   enableRepetitionElimination |-> "Repetition Elimination"]

flagOrder == <<"enableGoldenShadow", "enableEnvironmental", "enableActionScene",
               "enableProseSmoother", "enableRepetitionElimination">>

\* the techniquesUsed array: one name per flag that is true, in the fixed order
techniquesUsed(options) ==
  LET on(flag) == options[flag]
      named(used) == [k \in 1..Len(used) |-> techniqueNames[used[k]]]
  IN named(SelectSeq(flagOrder, on))

summaryTechniquesHeading == "**Enhancement Techniques Applied:**\n"

summaryFooter == "\n\n*Enhanced by UNO (Unified Narrative Operator)*"

\* the summary block, the two percentages given as printed
generateEnhancementSummary(originalWordCount, originalCharCount, finalWordCount, finalCharCount, expansionTarget, options, wordExpansionPercent, charExpansionPercent) ==
  LET bulletsOf(used) == [k \in 1..Len(used) |-> "- " \o used[k]]
      bullets == bulletsOf(techniquesUsed(options))
  IN "---\n\n## UNO Enhancement Summary\n\n**Expansion Results:**\n"
     \o "- Original Word Count: " \o numberToString(originalWordCount) \o "\n"
     \o "- Final Word Count: " \o numberToString(finalWordCount) \o "\n"
     \o "- Word Expansion: " \o wordExpansionPercent \o "% of original ("
     \o numberToString(expansionTarget) \o "% target)\n"
     \o "- Original Character Count: " \o numberToString(originalCharCount) \o "\n"
     \o "- Final Character Count: " \o numberToString(finalCharCount) \o "\n"
     \o "- Character Expansion: " \o charExpansionPercent \o "% of original\n\n"
     \o summaryTechniquesHeading
     \o join(bullets, "\n")
     \o summaryFooter


(***************************************************************************)
(* The enhance_text tool of the server (src/src/index.js): its own          *)
(* enhanceText function.                                                    *)
(***************************************************************************)
\* text.split(/(?<=[.!?])\s+/): the text is cut at every run of white space
\* that begins right after ".", "!" or "?"; the whole run is the separator
splitSentences(text) ==
  LET n == Len(text)
      isSeparatorStart(i) ==
        IsSpaceChar(CharAt(text, i)) /\ CharAt(text, i - 1) \in SentenceEndSet
      runEnd(i) == MinOf({j \in i..n : ~IsSpaceChar(CharAt(text, j + 1))})
      cut(starts) ==
        [k \in 1..(Len(starts) + 1) |->
           SubSeq(text, IF k = 1 THEN 1 ELSE runEnd(starts[k - 1]) + 1,
                  IF k > Len(starts) THEN n ELSE starts[k] - 1)]
  IN cut(positionsOf(isSeparatorStart, 1, n))

verbStems == <<"walk", "run", "look", "see", "feel", "think", "say", "go", "come", "take",
               "make", "know", "find">>

\* sentence.match(/\b(walk|run|...|find)\w*\b/i): the first word that begins
\* with one of the stems, lower-cased; 'was' when there is none
verbOf(sentence) ==
  LET among(words) ==
        LET beginsWithStem(k) ==
              \E j \in 1..Len(verbStems) : startsWith(words[k], verbStems[j])
            firstOf(at) == IF Len(at) = 0 THEN "was" ELSE words[at[1]]
        IN firstOf(positionsOf(beginsWithStem, 1, Len(words)))
  IN among(wordTokens(sentence))

\* words[0].match(/[A-Z][a-z]+/) ? words[0] : 'It'
potentialSubjectOf(words) ==
  IF \E i \in 1..(Len(words[1]) - 1) :
        /\ CharAt(words[1], i) \in UpperSet
        /\ CharAt(words[1], i + 1) \in CharsOf(LowerLetters)
  THEN words[1] ELSE "It"

MinWordsToEnhance == 3

ComplexSentenceWords == 10

\* what the loop pushes after the sentence itself: nothing, or one sentence
enhancementsOf(sentence) ==
  LET chosen(words, verb) ==
        IF ~(Len(words) > MinWordsToEnhance) THEN <<>>
        ELSE IF includes(sentence, "?")
        THEN <<"The question hung in the air, demanding an answer.">>
        ELSE IF includes(sentence, "!")
        THEN <<"The words reverberated with unmistakable emotion.">>
        ELSE IF verb \in {"saw", "looked", "observed", "noticed"}
        THEN <<potentialSubjectOf(words) \o " took in every detail, noting the subtle textures and colors that others might have missed.">>
        ELSE IF verb \in {"felt", "touched"}
        THEN <<"A subtle sensation lingered, impossible to ignore yet difficult to describe.">>
        ELSE IF verb \in {"heard", "listened"}
        THEN <<"The sound seemed to come from everywhere and nowhere at once, filling the space with its presence.">>
        ELSE IF Len(words) > ComplexSentenceWords
        THEN <<"This complexity revealed layers of meaning beneath the surface.">>
        ELSE <<potentialSubjectOf(words) \o " paused briefly, taking in the moment before continuing.">>
  IN chosen(splitStr(sentence, " "), verbOf(sentence))

\* the enhancedText array after the loop over the sentences from the k-th on
RECURSIVE pushSentences(_, _)
pushSentences(sentences, k) ==
  IF k > Len(sentences) THEN <<>>
  ELSE <<sentences[k]>> \o enhancementsOf(sentences[k]) \o pushSentences(sentences, k + 1)

closingSentences ==
  "\n\nThe subtle details of this moment would remain etched in memory long after other experiences had faded. There was something uniquely significant about it, something that transcended ordinary perception and touched upon deeper truths."

\* enhanceText(text, expansionTarget) of index.js.  currentExpansion <
\* expansionTarget is (length / text.length) * 100 < expansionTarget; for the
\* targets 100 and 200 the floating-point comparison is the exact one (for the
\* empty text it is NaN < target, false, like 0 < 0)
enhanceTextJs(text, expansionTarget) ==
  LET finish(enhancedText) ==
        IF 100 * Len(join(enhancedText, " ")) < expansionTarget * Len(text)
        THEN join(Append(enhancedText, closingSentences), " ")
        ELSE join(enhancedText, " ")
  IN finish(pushSentences(splitSentences(text), 1))

\* the exception of new RegExp for a name that is no regular expression
thrown == [kind |-> "exception", name |-> "SyntaxError"]

\* the pipeline sized by the target: a call that is not to expand the text
\* (a target of at most 100) leaves out the Prose Smoothing stage
customEnhanceTextAlone_SizedByTarget(text, expansionTarget, options, random) ==
  LET summaries(final) ==
        {[kind |-> "string",
          value |-> final \o ParagraphBreak
                    \o generateEnhancementSummary(
                         countWords(text), Len(text), countWords(final), Len(final),
                         expansionTarget, options, wordExpansionPercent,
                         charExpansionPercent)] :
           wordExpansionPercent \in percentOutcomes(countWords(final), countWords(text)),
           charExpansionPercent \in percentOutcomes(Len(final), Len(text))}
      repetition(t) ==
        IF ~options.enableRepetitionElimination THEN summaries(t)
        ELSE UNION {summaries(out.text) : out \in applyRepetitionElimination(t)}
      prose(t) ==
        IF ~options.enableProseSmoother \/ expansionTarget <= 100 THEN repetition(t)
        ELSE IF performEnhancementEvaluationThrows(t) THEN {thrown}
        ELSE repetition(applyProseSmoothening(t, random.prose))
      action(t) ==
        IF ~(options.enableActionScene /\ determineSceneType(text).isAction) THEN prose(t)
        ELSE IF performEnhancementEvaluationThrows(t) THEN {thrown}
        ELSE prose(applyActionSceneEnhancement(t, random.action))
      environmental(t) ==
        IF ~options.enableEnvironmental THEN action(t)
        ELSE IF performEnhancementEvaluationThrows(t) THEN {thrown}
        ELSE action(applyEnvironmentalExpansion(t))
      golden(t) ==
        IF ~options.enableGoldenShadow THEN environmental(t)
        ELSE IF performEnhancementEvaluationThrows(t) THEN {thrown}
        ELSE environmental(applyGoldenShadowEnhancement(t))
  IN IF analyzeTextThrows(text) THEN {thrown} ELSE golden(text)

\* everything customEnhanceText(text, expansionTarget, options) can return or
\* raise when it runs alone and Math.random() gives random.action in the
\* Action Scene stage and random.prose in the Prose Smoothing stage
customEnhanceTextAlone(text, expansionTarget, options, random) ==
  LET summaries(final) ==
        {[kind |-> "string",
          value |-> final \o ParagraphBreak
                    \o generateEnhancementSummary(
                         countWords(text), Len(text), countWords(final), Len(final),
                         expansionTarget, options, wordExpansionPercent,
                         charExpansionPercent)] :
           wordExpansionPercent \in percentOutcomes(countWords(final), countWords(text)),
           charExpansionPercent \in percentOutcomes(Len(final), Len(text))}
      repetition(t) ==
        IF ~options.enableRepetitionElimination THEN summaries(t)
        ELSE UNION {summaries(out.text) : out \in applyRepetitionElimination(t)}
      prose(t) ==
        IF ~options.enableProseSmoother THEN repetition(t)
        ELSE IF performEnhancementEvaluationThrows(t) THEN {thrown}
        ELSE repetition(applyProseSmoothening(t, random.prose))
      action(t) ==
        IF ~(options.enableActionScene /\ determineSceneType(text).isAction) THEN prose(t)
        ELSE IF performEnhancementEvaluationThrows(t) THEN {thrown}
        ELSE prose(applyActionSceneEnhancement(t, random.action))
      environmental(t) ==
        IF ~options.enableEnvironmental THEN action(t)
        ELSE IF performEnhancementEvaluationThrows(t) THEN {thrown}
        ELSE action(applyEnvironmentalExpansion(t))
      golden(t) ==
        IF ~options.enableGoldenShadow THEN environmental(t)
        ELSE IF performEnhancementEvaluationThrows(t) THEN {thrown}
        ELSE environmental(applyGoldenShadowEnhancement(t))
  IN IF analyzeTextThrows(text) THEN {thrown} ELSE golden(text)

\* the values Math.random() can give a lone call customEnhanceText(text, _,
\* options): those of the Action Scene stage and those of the Prose Smoothing
\* stage, as many as the stage asks for on the text it is given
drawsAlone(text, options) ==
  LET none == {[action |-> <<>>, prose |-> <<>>]}
      prose(t, drawn) ==
        IF ~options.enableProseSmoother \/ performEnhancementEvaluationThrows(t)
        THEN {[action |-> drawn, prose |-> <<>>]}
        ELSE {[action |-> drawn, prose |-> random] :
                random \in [1..proseDrawCount(t) -> RandomDraws]}
      action(t) ==
        IF ~(options.enableActionScene /\ determineSceneType(text).isAction)
        THEN prose(t, <<>>)
        ELSE IF performEnhancementEvaluationThrows(t) THEN none
        ELSE UNION {prose(applyActionSceneEnhancement(t, random), random) :
                      random \in [1..actionDrawCount(t) -> RandomDraws]}
      environmental(t) ==
        IF ~options.enableEnvironmental THEN action(t)
        ELSE IF performEnhancementEvaluationThrows(t) THEN none
        ELSE action(applyEnvironmentalExpansion(t))
      golden(t) ==
        IF ~options.enableGoldenShadow THEN environmental(t)
        ELSE IF performEnhancementEvaluationThrows(t) THEN none
        ELSE environmental(applyGoldenShadowEnhancement(t))
  IN IF analyzeTextThrows(text) THEN none ELSE golden(text)

(***************************************************************************)
(* The state: one call of the EnhancementProcessor (or of one TextAnalyzer *)
(* function) at a time.  customEnhanceText is an async function; its       *)
(* awaits (the analysis and each stage) are the steps of the machine.      *)
(*   method          the function called ("none" before a call)            *)
(*   text            its text argument                                     *)
(*   expansionTarget its target argument                                   *)
(*   options         its EnhancementOptions argument                       *)
(*   pc              where the call stands                                 *)
(*   enhancedText    the local enhancedText of customEnhanceText           *)
(*   result          what the call returned                                *)
(*   trace           history: the stages that ran, each with the text it   *)
(*                   received and the text it returned                     *)
(*   replaced        history: the replacements Repetition Elimination made *)
(***************************************************************************)
VARIABLES method, text, expansionTarget, options, pc, enhancedText, result, trace, replaced

(***************************************************************************)
(* The state of the UnoServer (src/build.js) and of calls that run at the  *)
(* same time:                                                              *)
(*   request    the tools/call request the server is handling, with the    *)
(*              error raised inside the handler's try block                *)
(*   frames     the local variables of every call of customEnhanceText or  *)
(*              analyzeText that has begun, one frame a call               *)
(*   instance   the fields of the objects the calls are made on            *)
(***************************************************************************)
VARIABLES request, frames, instance

serverVars == <<request, frames, instance>>

vars == <<method, text, expansionTarget, options, pc, enhancedText, result, trace, replaced, serverVars>>

allEnabled ==
  [enableGoldenShadow |-> TRUE, enableEnvironmental |-> TRUE, enableActionScene |-> TRUE,
   enableProseSmoother |-> TRUE, enableRepetitionElimination |-> TRUE]

noResult == [kind |-> "none"]

EnhancementOptions ==
  [enableGoldenShadow : BOOLEAN, enableEnvironmental : BOOLEAN, enableActionScene : BOOLEAN,
   enableProseSmoother : BOOLEAN, enableRepetitionElimination : BOOLEAN]

\* the texts the processor is called with
EmptyText == ""

QuietText == "however the room looked dark and quiet and cold"

ActionText == "Tom ran and ran, then jumped. He dodged, rushed and dashed."

RepetitionText ==
  "she said he looked up. he said she Looked down. they said we looked away. meanwhile the room was dark, quiet and cold"

ProseText == "the forest was dark and quiet and cold.\n\na bird sang to Ann."

PlotText == "we ran and decided to go on a quest"

ParenText == "Hello (Tom) there"

Texts == {EmptyText, QuietText, ActionText, RepetitionText, ProseText, PlotText, ParenText}

DefaultTarget == 200

\* the expansion targets of the calls; t / 100 is a binary fraction for each
Targets == {100, DefaultTarget}

\* JavaScript values of the arguments of a request
Undefined == [type |-> "undefined"]

JsString(s) == [type |-> "string", string |-> s]

JsNumber(n) == [type |-> "number", number |-> n]

JsBoolean(b) == [type |-> "boolean", boolean |-> b]

\* no request yet
noRequest == [name |-> "none", arguments |-> Undefined, raised |-> noResult]

\* new UnoServer(): this.analyzer = new TextAnalyzer(), this.enhancer = new
\* EnhancementProcessor(this.analyzer), whose constructor keeps the analyzer
constructed ==
  [analyzer |-> "TextAnalyzer", enhancer |-> "EnhancementProcessor",
   enhancerAnalyzer |-> "TextAnalyzer"]

Init ==
  /\ method = "none"
  /\ text = ""
  /\ expansionTarget = DefaultTarget
  /\ options = allEnabled
  /\ pc = "idle"
  /\ enhancedText = ""
  /\ result = noResult
  /\ trace = <<>>
  /\ replaced = <<>>
  /\ request = noRequest
  /\ frames = <<>>
  /\ instance = constructed

\* customEnhanceText(t, target, o) is called
CustomEnhanceText ==
  /\ pc = "idle"
  /\ \E t \in Texts, target \in Targets, o \in EnhancementOptions :
       /\ method' = "customEnhanceText"
       /\ text' = t
       /\ expansionTarget' = target
       /\ options' = o
  /\ pc' = "analyze"
  /\ UNCHANGED <<enhancedText, result, trace, replaced, serverVars>>

\* enhanceText(t, target) is called: customEnhanceText with every technique on
EnhanceText ==
  /\ pc = "idle"
  /\ \E t \in Texts, target \in Targets :
       /\ method' = "enhanceText"
       /\ text' = t
       /\ expansionTarget' = target
       /\ options' = allEnabled
  /\ pc' = "analyze"
  /\ UNCHANGED <<enhancedText, result, trace, replaced, serverVars>>

\* the call ends with the exception a stage or the analysis raised
Throw ==
  /\ pc' = "threw"
  /\ result' = [kind |-> "exception", name |-> "SyntaxError"]
  /\ UNCHANGED <<method, text, expansionTarget, options, enhancedText, trace, replaced, serverVars>>

\* a stage was called with `input` and enhancedText is assigned what it returned
StageRan(stage, input, output, next) ==
  /\ enhancedText' = output
  /\ trace' = Append(trace, [stage |-> stage, input |-> input, output |-> output])
  /\ pc' = next
  /\ UNCHANGED <<method, text, expansionTarget, options, result, serverVars>>

\* a stage was skipped
StageSkipped(next) ==
  /\ pc' = next
  /\ UNCHANGED <<method, text, expansionTarget, options, enhancedText, result, trace, replaced, serverVars>>

\* await this.analyzer.analyzeText(text), then let enhancedText = text
Analyze ==
  /\ pc = "analyze"
  /\ IF analyzeTextThrows(text) THEN Throw
     ELSE /\ enhancedText' = text
          /\ pc' = "golden"
          /\ UNCHANGED <<method, text, expansionTarget, options, result, trace, replaced, serverVars>>

GoldenShadowStage ==
  /\ pc = "golden"
  /\ IF ~options.enableGoldenShadow THEN StageSkipped("environmental")
     ELSE IF performEnhancementEvaluationThrows(enhancedText) THEN Throw
     ELSE /\ StageRan("golden", enhancedText, applyGoldenShadowEnhancement(enhancedText),
                  "environmental")
          /\ UNCHANGED replaced

\* the Environmental stage handed the original text instead of the running one
EnvironmentalStage_OnOriginalText ==
  /\ pc = "environmental"
  /\ IF ~options.enableEnvironmental THEN StageSkipped("action")
     ELSE IF performEnhancementEvaluationThrows(enhancedText) THEN Throw
     ELSE /\ StageRan("environmental", text, applyEnvironmentalExpansion(text), "action")
          /\ UNCHANGED replaced

EnvironmentalStage ==
  /\ pc = "environmental"
  /\ IF ~options.enableEnvironmental THEN StageSkipped("action")
     ELSE IF performEnhancementEvaluationThrows(enhancedText) THEN Throw
     ELSE /\ StageRan("environmental", enhancedText,
                  applyEnvironmentalExpansion(enhancedText), "action")
          /\ UNCHANGED replaced

\* the stage is called only when the ORIGINAL text is an action scene
ActionSceneStage ==
  /\ pc = "action"
  /\ IF ~(options.enableActionScene /\ determineSceneType(text).isAction)
     THEN StageSkipped("prose")
     ELSE IF performEnhancementEvaluationThrows(enhancedText) THEN Throw
     ELSE /\ \E random \in [1..actionDrawCount(enhancedText) -> RandomDraws] :
               StageRan("action", enhancedText,
                        applyActionSceneEnhancement(enhancedText, random), "prose")
          /\ UNCHANGED replaced

ProseSmoothingStage ==
  /\ pc = "prose"
  /\ IF ~options.enableProseSmoother THEN StageSkipped("repetition")
     ELSE IF performEnhancementEvaluationThrows(enhancedText) THEN Throw
     ELSE /\ \E random \in [1..proseDrawCount(enhancedText) -> RandomDraws] :
               StageRan("prose", enhancedText,
                        applyProseSmoothening(enhancedText, random), "repetition")
          /\ UNCHANGED replaced

RepetitionEliminationStage ==
  /\ pc = "repetition"
  /\ IF ~options.enableRepetitionElimination THEN StageSkipped("summary")
     ELSE \E out \in applyRepetitionElimination(enhancedText) :
            /\ StageRan("repetition", enhancedText, out.text, "summary")
            /\ replaced' = out.replaced

\* the summary is generated and enhancedText + '\n\n' + summary returned
Summary ==
  /\ pc = "summary"
  /\ LET originalWordCount == countWords(text)
         originalCharCount == Len(text)
         finalWordCount == countWords(enhancedText)
         finalCharCount == Len(enhancedText)
     IN \E wordExpansionPercent \in percentOutcomes(finalWordCount, originalWordCount),
           charExpansionPercent \in percentOutcomes(finalCharCount, originalCharCount) :
          result' = [kind |-> "string",
                     value |-> enhancedText \o ParagraphBreak
                               \o generateEnhancementSummary(
                                    originalWordCount, originalCharCount, finalWordCount,
                                    finalCharCount, expansionTarget, options,
                                    wordExpansionPercent, charExpansionPercent)]
  /\ pc' = "returned"
  /\ UNCHANGED <<method, text, expansionTarget, options, enhancedText, trace, replaced, serverVars>>

Next ==
  \/ CustomEnhanceText
  \/ EnhanceText
  \/ Analyze
  \/ GoldenShadowStage
  \/ EnvironmentalStage
  \/ ActionSceneStage
  \/ ProseSmoothingStage
  \/ RepetitionEliminationStage
  \/ Summary

Spec == Init /\ [][Next]_vars

(***************************************************************************)
(* The TextAnalyzer functions called on their own: one call of              *)
(* determineSceneType or of identifyCharacterFocus, from its argument to    *)
(* the object it returns.                                                   *)
(***************************************************************************)
\* the largest number of markers of one kind in a scene text
MaxRep == 6

\* s repeated n times
RECURSIVE Rep(_, _)
Rep(s, n) ==
  IF n = 0 THEN ""
  ELSE IF n = 1 THEN s
  ELSE Rep(s, n \div 2) \o Rep(s, n - (n \div 2))

\* a text with a action verbs, t speech tags and q quoted spans
sceneText(a, t, q) == Rep("ran ", a) \o Rep("said ", t) \o Rep("'hi' ", q)

SceneTexts == {sceneText(a, t, q) : a \in 0..MaxRep, t \in 0..MaxRep, q \in 0..MaxRep}

PronounTexts ==
  {"", "I saw him", "I think so", "the door was open", "she gave it to me", "they left",
   "you and I", "we saw them", "it is mine, he said", "You know her", "(my) word",
   "He's here", "is it ours? no, theirs!", "Me and him", "nobody came"}

DetermineSceneType ==
  /\ pc = "idle"
  /\ \E t \in SceneTexts :
       /\ text' = t
       /\ result' = [kind |-> "object", value |-> determineSceneType(t)]
  /\ method' = "determineSceneType"
  /\ pc' = "returned"
  /\ UNCHANGED <<expansionTarget, options, enhancedText, trace, replaced, serverVars>>

IdentifyCharacterFocus ==
  /\ pc = "idle"
  /\ \E t \in PronounTexts :
       /\ text' = t
       /\ result' = [kind |-> "object", value |-> identifyCharacterFocus(t)]
  /\ method' = "identifyCharacterFocus"
  /\ pc' = "returned"
  /\ UNCHANGED <<expansionTarget, options, enhancedText, trace, replaced, serverVars>>

\* the largest number of occurrences of one word in a counted text
MaxCount == 5

\* a text of s times "statue", g times "garden", n times "2024" and c times
\* "cat", in this order
countedText(s, g, n, c) ==
  Rep("statue ", s) \o Rep("garden ", g) \o Rep("2024 ", n) \o Rep("cat ", c)

CountedTexts ==
  {countedText(s, g, n, c) : s \in 0..MaxCount, g \in 0..MaxCount, n \in 0..MaxCount,
                             c \in {0, MaxCount}}

\* the largest number of words of a sentence of a structure text
MaxWords == 16

MaxCopies == 4

\* `copies` sentences of k words each that begin with "he", after the lead
structureText(lead, k, copies) == lead \o Rep("he" \o Rep(" ran", k - 1) \o ". ", copies)

StructureLeads == {"", "Go. "}

StructureTexts ==
  {structureText(lead, k, copies) : lead \in StructureLeads, k \in 1..MaxWords,
                                    copies \in 1..MaxCopies}

FindRepeatedWords ==
  /\ pc = "idle"
  /\ \E t \in CountedTexts :
       /\ text' = t
       /\ result' = [kind |-> "array", value |-> findRepeatedWords(t)]
  /\ method' = "findRepeatedWords"
  /\ pc' = "returned"
  /\ UNCHANGED <<expansionTarget, options, enhancedText, trace, replaced, serverVars>>

\* a text of eleven words: "omega", three times, then six words four times
\* each, then four words three times each
ElevenWordsText ==
  Rep("omega ", 3) \o Rep("alpha ", 4) \o Rep("bravo ", 4) \o Rep("delta ", 4)
  \o Rep("gamma ", 4) \o Rep("kappa ", 4) \o Rep("sigma ", 4) \o Rep("theta ", 3)
  \o Rep("lambda ", 3) \o Rep("nabla ", 3) \o Rep("omicron ", 3)

SeverityTexts == CountedTexts \cup {EmptyText, ElevenWordsText}

EvaluateRepetitionSeverity ==
  /\ pc = "idle"
  /\ \E t \in SeverityTexts :
       /\ text' = t
       /\ result' = [kind |-> "object", value |-> evaluateRepetitionSeverity(t)]
  /\ method' = "evaluateRepetitionSeverity"
  /\ pc' = "returned"
  /\ UNCHANGED <<expansionTarget, options, enhancedText, trace, replaced, serverVars>>

FindRepeatedSentenceStructures ==
  /\ pc = "idle"
  /\ \E t \in StructureTexts :
       /\ text' = t
       /\ result' = [kind |-> "array", value |-> findRepeatedSentenceStructures(t)]
  /\ method' = "findRepeatedSentenceStructures"
  /\ pc' = "returned"
  /\ UNCHANGED <<expansionTarget, options, enhancedText, trace, replaced, serverVars>>

\* the largest number of analyzeText calls made on one TextAnalyzer
MaxCalls == 3

\* the texts analyzeText is called with: two without a sentence among them
AnalyzeTexts == {EmptyText, "   ", QuietText, RepetitionText, ParenText}

\* an analyzer that heads every report with the number of the call
AnalyzeText_NumberedReports ==
  /\ pc \in {"idle", "returned", "threw"}
  /\ method \in {"none", "analyzeText"}
  /\ Len(trace) < MaxCalls
  /\ \E t \in AnalyzeTexts :
       LET ended(outcome) ==
             /\ text' = t
             /\ result' = outcome
             /\ trace' = Append(trace, [text |-> t, result |-> outcome])
             /\ pc' = IF outcome.kind = "exception" THEN "threw" ELSE "returned"
       IN ended(IF analyzeTextThrows(t)
                THEN [kind |-> "exception", name |-> "SyntaxError"]
                ELSE [kind |-> "string",
                      value |-> "Report " \o numberToString(Len(trace) + 1) \o "\n"
                                \o analyzeText(t)])
  /\ method' = "analyzeText"
  /\ UNCHANGED <<expansionTarget, options, enhancedText, replaced, serverVars>>

\* analyzeText(t) is called on the analyzer, any number of times; trace keeps
\* every call with what it returned or raised.  TextAnalyzer has no field and
\* analyzeText reads nothing but its argument.
AnalyzeText ==
  /\ pc \in {"idle", "returned", "threw"}
  /\ method \in {"none", "analyzeText"}
  /\ Len(trace) < MaxCalls
  /\ \E t \in AnalyzeTexts :
       LET ended(outcome) ==
             /\ text' = t
             /\ result' = outcome
             /\ trace' = Append(trace, [text |-> t, result |-> outcome])
             /\ pc' = IF outcome.kind = "exception" THEN "threw" ELSE "returned"
       IN ended(IF analyzeTextThrows(t)
                THEN [kind |-> "exception", name |-> "SyntaxError"]
                ELSE [kind |-> "string", value |-> analyzeText(t)])
  /\ method' = "analyzeText"
  /\ UNCHANGED <<expansionTarget, options, enhancedText, replaced, serverVars>>

NextAnalyzer ==
  \/ DetermineSceneType
  \/ IdentifyCharacterFocus
  \/ FindRepeatedWords
  \/ FindRepeatedSentenceStructures
  \/ AnalyzeText
  \/ EvaluateRepetitionSeverity

SpecAnalyzer == Init /\ [][NextAnalyzer]_vars

(***************************************************************************)
(* The stages of the EnhancementProcessor called on their own: one call of *)
(* applyGoldenShadowEnhancement or of applyActionSceneEnhancement, from    *)
(* the text it receives to the text it returns.                            *)
(***************************************************************************)
\* the largest number of paragraphs of a stage text
MaxParagraphs == 3

\* the texts of 1..n paragraphs of the given kinds
textsOf(kinds, n) ==
  {join(paragraphs, ParagraphBreak) : paragraphs \in UNION {[1..k -> kinds] : k \in 1..n}}

\* paragraphs with and without a character name, a plot indicator, a line
\* break, and an empty one; "There" is a word of the character addition too;
\* the name of the last one is not a regular expression
GoldenParagraphs ==
  {"we saw Ann.", "There was Bob.", "we decided to go", "", "Tom saw Ann\nBob left",
   "Hello (Tom) there"}

GoldenTexts == textsOf(GoldenParagraphs, MaxParagraphs)

\* paragraphs with and without action verbs; the last one has every detail
\* the stage would add
ActionParagraphs ==
  {"Tom ran, jumped, dodged, rushed, dashed and lunged.", "the room was quiet",
   "He dodged, rushed and dashed.",
   "suddenly she sprinted, heard the crashed door and lunged, grabbed it\n"}

\* the largest number of paragraphs of a text of the Action Scene stage
MaxActionParagraphs == 2

ActionTexts == textsOf(ActionParagraphs, MaxActionParagraphs)

ApplyGoldenShadowEnhancement ==
  /\ pc = "idle"
  /\ \E t \in GoldenTexts :
       /\ text' = t
       /\ IF performEnhancementEvaluationThrows(t)
          THEN /\ pc' = "threw"
               /\ result' = [kind |-> "exception", name |-> "SyntaxError"]
               /\ UNCHANGED trace
          ELSE LET returned(output) ==
                     /\ pc' = "returned"
                     /\ result' = [kind |-> "string", value |-> output]
                     /\ trace' = Append(trace, [stage |-> "golden", input |-> t,
                                                output |-> output])
               IN returned(applyGoldenShadowEnhancement(t))
  /\ method' = "applyGoldenShadowEnhancement"
  /\ UNCHANGED <<expansionTarget, options, enhancedText, replaced, serverVars>>

ApplyActionSceneEnhancement ==
  /\ pc = "idle"
  /\ \E t \in ActionTexts :
       /\ text' = t
       /\ IF performEnhancementEvaluationThrows(t)
          THEN /\ pc' = "threw"
               /\ result' = [kind |-> "exception", name |-> "SyntaxError"]
               /\ UNCHANGED trace
          ELSE \E random \in [1..actionDrawCount(t) -> RandomDraws] :
                 LET returned(output) ==
                       /\ pc' = "returned"
                       /\ result' = [kind |-> "string", value |-> output]
                       /\ trace' = Append(trace, [stage |-> "action", input |-> t,
                                                  output |-> output])
                 IN returned(applyActionSceneEnhancement(t, random))
  /\ method' = "applyActionSceneEnhancement"
  /\ UNCHANGED <<expansionTarget, options, enhancedText, replaced, serverVars>>

\* paragraphs with a setting the analyzer and the stage both know, with a
\* setting only the stage knows, without a setting, and with a scent
EnvironmentParagraphs ==
  {"the room was dark, quiet and cold", "the lake was dark, quiet and cold", "Ann left",
   "a sweet scent"}

EnvironmentTexts == textsOf(EnvironmentParagraphs, MaxParagraphs)

ApplyEnvironmentalExpansion ==
  /\ pc = "idle"
  /\ \E t \in EnvironmentTexts :
       /\ text' = t
       /\ IF performEnhancementEvaluationThrows(t)
          THEN /\ pc' = "threw"
               /\ result' = thrown
               /\ UNCHANGED trace
          ELSE LET returned(output) ==
                     /\ pc' = "returned"
                     /\ result' = [kind |-> "string", value |-> output]
                     /\ trace' = Append(trace, [stage |-> "environmental", input |-> t,
                                                output |-> output])
               IN returned(applyEnvironmentalExpansion(t))
  /\ method' = "applyEnvironmentalExpansion"
  /\ UNCHANGED <<expansionTarget, options, enhancedText, replaced, serverVars>>

MaxProseParagraphs == 3

\* paragraphs without a transition word, with one, and one the analysis fails on
ProseParagraphs == {"Ann left", "Bob ran", "however Tom stayed", "Hello (Tom) there"}

ProseTexts == textsOf(ProseParagraphs, MaxProseParagraphs)

ApplyProseSmoothening ==
  /\ pc = "idle"
  /\ \E t \in ProseTexts :
       /\ text' = t
       /\ IF performEnhancementEvaluationThrows(t)
          THEN /\ pc' = "threw"
               /\ result' = [kind |-> "exception", name |-> "SyntaxError"]
               /\ UNCHANGED trace
          ELSE \E random \in [1..proseDrawCount(t) -> RandomDraws] :
                 LET returned(output) ==
                       /\ pc' = "returned"
                       /\ result' = [kind |-> "string", value |-> output]
                       /\ trace' = Append(trace, [stage |-> "prose", input |-> t,
                                                  output |-> output])
                 IN returned(applyProseSmoothening(t, random))
  /\ method' = "applyProseSmoothening"
  /\ UNCHANGED <<expansionTarget, options, enhancedText, replaced, serverVars>>

NextStages ==
  \/ ApplyGoldenShadowEnhancement
  \/ ApplyEnvironmentalExpansion
  \/ ApplyActionSceneEnhancement
  \/ ApplyProseSmoothening

SpecStages == Init /\ [][NextStages]_vars

(***************************************************************************)
(* The UnoServer (src/build.js): one tools/call request, from the handler  *)
(* set with setRequestHandler(CallToolRequestSchema, ...) to what the      *)
(* handler returns or raises.  request.params.arguments is optional in a   *)
(* tools/call request; its members are whatever the caller sent.           *)
(***************************************************************************)
\* the three tools and a name that is none of them
ToolNames == {"analyze_text", "enhance_text", "custom_enhance_text", "delete_text"}

ServerTexts == {Undefined, JsString(""), JsNumber(5), JsString(QuietText), JsString(ParenText)}

ServerTargets == {Undefined, JsNumber(100), JsString("100")}

ServerFlags == {Undefined, JsBoolean(FALSE)}

\* request.params.arguments: absent, or an object
Arguments ==
  {Undefined}
  \cup [type : {"object"}, text : ServerTexts, expansionTarget : ServerTargets,
        enableGoldenShadow : ServerFlags, enableEnvironmental : ServerFlags,
        enableActionScene : ServerFlags, enableProseSmoother : ServerFlags,
        enableRepetitionElimination : ServerFlags]

\* a test that takes every string, the empty one too, as a value
truthy_EveryString(v) ==
  CASE v.type = "string" -> TRUE
    [] v.type = "number" -> v.number # 0
    [] v.type = "boolean" -> v.boolean
    [] OTHER -> FALSE

\* the value is truthy
truthy(v) ==
  CASE v.type = "string" -> v.string # ""
    [] v.type = "number" -> v.number # 0
    [] v.type = "boolean" -> v.boolean
    [] OTHER -> FALSE

\* new McpError(code, message)
McpError(code, message) == [kind |-> "McpError", code |-> code, message |-> message]

\* args.text of an args that is undefined
TypeError == [kind |-> "exception", name |-> "TypeError"]

\* { content: [{ type: 'text', text }] }
content(t) == [kind |-> "content", type |-> "text", text |-> t]

\* a catch block without the instanceof McpError test
surfaced_AlwaysInternal(error) ==
  McpError("InternalError",
           "Error processing request: "
           \o (IF error.kind = "McpError" THEN error.message ELSE error.name))

\* the catch block of the handler: what it throws for the error it caught;
\* the message it gives an error that is no McpError ends with the message
\* of that error, here its name
surfaced(error) ==
  IF error.kind = "McpError" THEN error
  ELSE McpError("InternalError", "Error processing request: " \o error.name)

\* !args.text || typeof args.text !== 'string'
invalidText(args) == ~truthy(args.text) \/ args.text.type # "string"

HandlerDefaultTarget == 200

\* args.expansionTarget && typeof args.expansionTarget === 'number'
\*   ? args.expansionTarget : 200
targetOf(args) ==
  IF truthy(args.expansionTarget) /\ args.expansionTarget.type = "number"
  THEN args.expansionTarget.number
  ELSE HandlerDefaultTarget

\* args.enableX !== false, for the five techniques
optionsOf(args) ==
  [enableGoldenShadow |-> args.enableGoldenShadow # JsBoolean(FALSE),
   enableEnvironmental |-> args.enableEnvironmental # JsBoolean(FALSE),
   enableActionScene |-> args.enableActionScene # JsBoolean(FALSE),
   enableProseSmoother |-> args.enableProseSmoother # JsBoolean(FALSE),
   enableRepetitionElimination |-> args.enableRepetitionElimination # JsBoolean(FALSE)]

\* the handler caught `error` before it called the analyzer or the enhancer
Caught(name, args, error) ==
  /\ request' = [name |-> name, arguments |-> args, raised |-> error]
  /\ result' = surfaced(error)
  /\ pc' = "responded"
  /\ UNCHANGED <<method, text, expansionTarget, options, enhancedText, trace, replaced,
                 frames, instance>>

\* the text check the three handle functions begin with
Checked(name, args) ==
  IF args.type = "undefined" THEN Caught(name, args, TypeError)
  ELSE Caught(name, args, McpError("InvalidParams", "Missing or invalid text parameter"))

\* the default case of the switch
HandleUnknownTool ==
  /\ pc = "idle"
  /\ \E name \in ToolNames \ {"analyze_text", "enhance_text", "custom_enhance_text"},
        args \in Arguments :
       Caught(name, args, McpError("MethodNotFound", "Unknown tool: " \o name))

HandleAnalyzeText ==
  /\ pc = "idle"
  /\ \E args \in Arguments :
       IF args.type = "undefined" \/ invalidText(args) THEN Checked("analyze_text", args)
       ELSE /\ method' = "analyzeText"
            /\ text' = args.text.string
            /\ IF analyzeTextThrows(args.text.string)
               THEN /\ request' = [name |-> "analyze_text", arguments |-> args,
                                   raised |-> [kind |-> "exception", name |-> "SyntaxError"]]
                    /\ result' = surfaced([kind |-> "exception", name |-> "SyntaxError"])
               ELSE /\ request' = [name |-> "analyze_text", arguments |-> args,
                                   raised |-> noResult]
                    /\ result' = content(analyzeText(args.text.string))
            /\ pc' = "responded"
            /\ UNCHANGED <<expansionTarget, options, enhancedText, trace, replaced, frames,
                           instance>>

\* this.enhancer.enhanceText(args.text, expansionTarget) is called; the
\* steps of the call are those of customEnhanceText with every technique on
HandleEnhanceText ==
  /\ pc = "idle"
  /\ \E args \in Arguments :
       IF args.type = "undefined" \/ invalidText(args) THEN Checked("enhance_text", args)
       ELSE /\ request' = [name |-> "enhance_text", arguments |-> args, raised |-> noResult]
            /\ method' = "enhanceText"
            /\ text' = args.text.string
            /\ expansionTarget' = targetOf(args)
            /\ options' = allEnabled
            /\ pc' = "analyze"
            /\ UNCHANGED <<enhancedText, result, trace, replaced, frames, instance>>

HandleCustomEnhanceText ==
  /\ pc = "idle"
  /\ \E args \in Arguments :
       IF args.type = "undefined" \/ invalidText(args)
       THEN Checked("custom_enhance_text", args)
       ELSE /\ request' = [name |-> "custom_enhance_text", arguments |-> args,
                           raised |-> noResult]
            /\ method' = "customEnhanceText"
            /\ text' = args.text.string
            /\ expansionTarget' = targetOf(args)
            /\ options' = optionsOf(args)
            /\ pc' = "analyze"
            /\ UNCHANGED <<enhancedText, result, trace, replaced, frames, instance>>

\* the call of the enhancer has ended: the handler returns the content, or
\* catches what the call raised
Respond ==
  /\ pc \in {"returned", "threw"}
  /\ request.name \in {"enhance_text", "custom_enhance_text"}
  /\ IF pc = "threw"
     THEN /\ request' = [request EXCEPT !.raised = result]
          /\ result' = surfaced(result)
     ELSE /\ result' = content(result.value)
          /\ UNCHANGED request
  /\ pc' = "responded"
  /\ UNCHANGED <<method, text, expansionTarget, options, enhancedText, trace, replaced,
                 frames, instance>>

NextServer ==
  \/ HandleUnknownTool
  \/ HandleAnalyzeText
  \/ HandleEnhanceText
  \/ HandleCustomEnhanceText
  \/ Analyze
  \/ GoldenShadowStage
  \/ EnvironmentalStage
  \/ ActionSceneStage
  \/ ProseSmoothingStage
  \/ RepetitionEliminationStage
  \/ Summary
  \/ Respond

SpecServer == Init /\ [][NextServer]_vars

(***************************************************************************)
(* Calls that run at the same time on the one TextAnalyzer and the one     *)
(* EnhancementProcessor of the server.  Every call of an async function    *)
(* has its own parameters and local variables (its frame); the calls take  *)
(* turns at their awaits.  Here trace[c] keeps, for call c, what it was    *)
(* called with, the draws of Math.random() made for it and how it ended.   *)
(***************************************************************************)
\* the calls: one that is running and one that begins, runs and ends at any
\* point of the first or after it
CallIds == {1, 2}

\* the texts of the calls: one without a draw, one with a draw in the Action
\* Scene stage, one whose analysis raises
CallTexts ==
  {QuietText, "meanwhile Tom ran and ran, then jumped. He dodged, rushed and dashed.",
   ParenText}

\* one frame for every call, as if the parameters and local variables were
\* fields of the processor
frameOf_Shared(c) == 1

\* the frame of call c: every call has its own
frameOf(c) == c

\* call c is running
running(c) == c <= Len(trace) /\ trace[c].result = noResult

\* call c begins: its parameters are its own
Begun(c, called, t, target, o, at) ==
  /\ c = Len(trace) + 1
  /\ trace' = Append(trace, [method |-> called, text |-> t, expansionTarget |-> target,
                             options |-> o, random |-> [action |-> <<>>, prose |-> <<>>],
                             result |-> noResult, during |-> {}])
  /\ frames' = [k \in (DOMAIN frames) \cup {frameOf(c)} |->
                  IF k = frameOf(c)
                  THEN [text |-> t, expansionTarget |-> target, options |-> o,
                        enhancedText |-> "", pc |-> at]
                  ELSE frames[k]]
  /\ UNCHANGED <<method, text, expansionTarget, options, pc, enhancedText, result, replaced,
                 request, instance>>

\* call c goes on to `at` with enhancedText e, having drawn `random`
Moved(c, e, at, random) ==
  /\ frames' = [frames EXCEPT ![frameOf(c)].enhancedText = e, ![frameOf(c)].pc = at]
  /\ trace' = [trace EXCEPT ![c].random = random]
  /\ UNCHANGED <<method, text, expansionTarget, options, pc, enhancedText, result, replaced,
                 request, instance>>

\* call c ends with `outcome`; `during` keeps the calls that were running then
Ended(c, outcome) ==
  /\ frames' = [frames EXCEPT ![frameOf(c)].pc = "ended"]
  /\ trace' = [trace EXCEPT ![c].result = outcome,
                            ![c].during = {k \in 1..Len(trace) : k # c /\ running(k)}]
  /\ UNCHANGED <<method, text, expansionTarget, options, pc, enhancedText, result, replaced,
                 request, instance>>

\* this.enhancer.enhanceText(t, target) is called
BeginEnhanceText(c) ==
  /\ c \in CallIds
  /\ \E t \in CallTexts : Begun(c, "enhanceText", t, DefaultTarget, allEnabled, "analyze")

\* this.analyzer.analyzeText(t) is called
BeginAnalyzeText(c) ==
  /\ c \in CallIds
  /\ \E t \in CallTexts : Begun(c, "analyzeText", t, DefaultTarget, allEnabled, "report")

\* analyzeText of call c, after its awaits, returns its report
ReturnReport(c) ==
  /\ running(c)
  /\ trace[c].method = "analyzeText"
  /\ LET report(f) ==
           /\ f.pc = "report"
           /\ Ended(c, IF analyzeTextThrows(f.text) THEN thrown
                       ELSE [kind |-> "string", value |-> analyzeText(f.text)])
     IN report(frames[frameOf(c)])

\* await this.analyzer.analyzeText(text), then let enhancedText = text
AwaitAnalysis(c) ==
  /\ running(c)
  /\ trace[c].method = "enhanceText"
  /\ LET analyzed(f) ==
           /\ f.pc = "analyze"
           /\ IF analyzeTextThrows(f.text) THEN Ended(c, thrown)
              ELSE Moved(c, f.text, "golden", trace[c].random)
     IN analyzed(frames[frameOf(c)])

\* the next of the five stages of call c
RunStage(c) ==
  /\ running(c)
  /\ trace[c].method = "enhanceText"
  /\ LET stage(f) ==
           LET evaluated(on, next, ran) ==
                 IF ~on THEN Moved(c, f.enhancedText, next, trace[c].random)
                 ELSE IF performEnhancementEvaluationThrows(f.enhancedText)
                      THEN Ended(c, thrown)
                      ELSE ran
           IN CASE f.pc = "golden" ->
                     evaluated(f.options.enableGoldenShadow, "environmental",
                               Moved(c, applyGoldenShadowEnhancement(f.enhancedText),
                                     "environmental", trace[c].random))
                [] f.pc = "environmental" ->
                     evaluated(f.options.enableEnvironmental, "action",
                               Moved(c, applyEnvironmentalExpansion(f.enhancedText),
                                     "action", trace[c].random))
                [] f.pc = "action" ->
                     evaluated(f.options.enableActionScene
                                 /\ determineSceneType(f.text).isAction, "prose",
                               \E random \in [1..actionDrawCount(f.enhancedText)
                                                -> RandomDraws] :
                                 Moved(c, applyActionSceneEnhancement(f.enhancedText, random),
                                       "prose", [trace[c].random EXCEPT !.action = random]))
                [] f.pc = "prose" ->
                     evaluated(f.options.enableProseSmoother, "repetition",
                               \E random \in [1..proseDrawCount(f.enhancedText)
                                                -> RandomDraws] :
                                 Moved(c, applyProseSmoothening(f.enhancedText, random),
                                       "repetition",
                                       [trace[c].random EXCEPT !.prose = random]))
                [] f.pc = "repetition" ->
                     IF ~f.options.enableRepetitionElimination
                     THEN Moved(c, f.enhancedText, "summary", trace[c].random)
                     ELSE \E out \in applyRepetitionElimination(f.enhancedText) :
                            Moved(c, out.text, "summary", trace[c].random)
                [] OTHER -> FALSE
     IN stage(frames[frameOf(c)])

\* call c returns enhancedText + '\n\n' + summary
ReturnSummary(c) ==
  /\ running(c)
  /\ trace[c].method = "enhanceText"
  /\ LET summary(f) ==
           /\ f.pc = "summary"
           /\ \E wordExpansionPercent \in
                   percentOutcomes(countWords(f.enhancedText), countWords(f.text)),
                 charExpansionPercent \in percentOutcomes(Len(f.enhancedText), Len(f.text)) :
                Ended(c, [kind |-> "string",
                          value |-> f.enhancedText \o ParagraphBreak
                                    \o generateEnhancementSummary(
                                         countWords(f.text), Len(f.text),
                                         countWords(f.enhancedText), Len(f.enhancedText),
                                         f.expansionTarget, f.options, wordExpansionPercent,
                                         charExpansionPercent)])
     IN summary(frames[frameOf(c)])

NextCalls ==
  \/ \E c \in CallIds : BeginEnhanceText(c)
  \/ \E c \in CallIds : BeginAnalyzeText(c)
  \/ \E c \in CallIds : ReturnReport(c)
  \/ \E c \in CallIds : AwaitAnalysis(c)
  \/ \E c \in CallIds : RunStage(c)
  \/ \E c \in CallIds : ReturnSummary(c)

SpecCalls == Init /\ [][NextCalls]_vars

(***************************************************************************)
(* The enhance_text tool called on its own.                                *)
(***************************************************************************)
WideGap == 240

JsSentences ==
  {"Go.", "She looked at the sky above.", "Did you hear what he told them?",
   "Stop it right now!", "It felt cold and damp here.", "no end",
   "Tom and Ann went to the old house by the river at the end of the long road."}

JsGaps == {" ", "  ", "\n", Rep(" ", WideGap)}

JsTexts == JsSentences \cup {a \o gap \o b : a \in JsSentences, gap \in JsGaps, b \in JsSentences}

EnhanceTextJs ==
  /\ pc = "idle"
  /\ \E t \in JsTexts, target \in Targets :
       /\ text' = t
       /\ expansionTarget' = target
       /\ result' = [kind |-> "string", value |-> enhanceTextJs(t, target)]
  /\ method' = "enhance_text"
  /\ pc' = "returned"
  /\ UNCHANGED <<options, enhancedText, trace, replaced, serverVars>>

NextJs == EnhanceTextJs

SpecJs == Init /\ [][NextJs]_vars

(***************************************************************************)
(* Properties of customEnhanceText, checked under Spec.                    *)
(***************************************************************************)
stageOrder == <<"golden", "environmental", "action", "prose", "repetition">>

stageRank(stage) == CHOOSE k \in 1..Len(stageOrder) : stageOrder[k] = stage

stagesRun == {trace[i].stage : i \in 1..Len(trace)}

\* the text the last stage that ran returned (the original text when none ran)
lastOutput == IF Len(trace) = 0 THEN text ELSE trace[Len(trace)].output

summaryHeading == "---\n\n## UNO Enhancement Summary"

\* C1: the stages that run do so in the order Golden-Shadow, Environmental,
\* Action-Scene, Prose-Smoothing, Repetition-Elimination, none of them twice;
\* each receives the text the stage that ran before it returned (the first one
\* the original text); a stage other than Action-Scene runs exactly when its
\* flag is on, Action-Scene exactly when its flag is on and the original text
\* is an action scene; and what is returned is the text of the last stage
\* followed by the separator and the summary block.
C1_StagesRunInOrder ==
  /\ \A i \in 1..Len(trace) :
       trace[i].input = (IF i = 1 THEN text ELSE trace[i - 1].output)
  /\ \A i, j \in 1..Len(trace) :
       i < j => stageRank(trace[i].stage) < stageRank(trace[j].stage)
  /\ (pc \notin {"idle", "analyze", "threw"} => enhancedText = lastOutput)
  /\ (pc \in {"summary", "returned"} =>
        /\ ("golden" \in stagesRun) = options.enableGoldenShadow
        /\ ("environmental" \in stagesRun) = options.enableEnvironmental
        /\ ("action" \in stagesRun)
             = (options.enableActionScene /\ actionVerbsOf(text) > SceneThreshold)
        /\ ("prose" \in stagesRun) = options.enableProseSmoother
        /\ ("repetition" \in stagesRun) = options.enableRepetitionElimination)
  /\ (result.kind = "string" =>
        /\ pc = "returned"
        /\ startsWith(result.value, lastOutput \o ParagraphBreak \o summaryHeading))
  /\ (pc # "returned" => result.kind # "string")

\* all five stages ran, the first four changing the text, and the call returned
C1_AllFiveStagesRan ==
  /\ pc = "returned"
  /\ Len(trace) = 5
  /\ \A i \in 1..5 : trace[i].stage = stageOrder[i]
  /\ \A i \in 1..4 : trace[i].input # trace[i].output

allDisabled == \A flag \in DOMAIN options : ~options[flag]

stageAdditions ==
  <<plotAddition, "'s expression betrayed a hint", visualAddition, auditoryAddition,
    tactileAddition, olfactoryAddition, objectParagraph, timeAddition, sensoryAddition,
    interactionAddition, stillnessAddition>>

\* C2: customEnhanceText with all five flags false returns, for every text,
\* exactly the original text, the separator and the summary block (with an
\* empty technique list), and none of the stages' insertions appears in it.
C2_AllDisabledReturnsOriginal ==
  (allDisabled /\ pc \in {"returned", "threw"}) =>
     /\ result.kind = "string"
     /\ trace = <<>>
     /\ \E wordPct \in percentOutcomes(countWords(text), countWords(text)),
           charPct \in percentOutcomes(Len(text), Len(text)) :
          result.value = text \o ParagraphBreak
                         \o generateEnhancementSummary(
                              countWords(text), Len(text), countWords(text), Len(text),
                              expansionTarget, options, wordPct, charPct)
     /\ \A k \in 1..Len(stageAdditions) : ~includes(result.value, stageAdditions[k])

\* C2, for the calls that return: the same result, whenever the call returns
C2_AllDisabledReturnedOriginal ==
  (allDisabled /\ pc = "returned") =>
     /\ trace = <<>>
     /\ startsWith(result.value, text \o ParagraphBreak \o summaryHeading)
     /\ \A k \in 1..Len(stageAdditions) : ~includes(result.value, stageAdditions[k])

\* with all flags false the call raised instead of returning
C2_AllDisabledCallRaised ==
  /\ allDisabled
  /\ pc = "threw"
  /\ text = ParenText

\* C3: customEnhanceText completes and returns a string for every text, every
\* target and every flag combination; it never raises.
C3_NeverRaises == pc # "threw" /\ result.kind # "exception"

\* the call raised on the text with a parenthesised capitalised token
C3_RaisedOnParenthesis ==
  /\ pc = "threw"
  /\ text = ParenText
  /\ result = [kind |-> "exception", name |-> "SyntaxError"]

\* C4: the Action-Scene step changes the running text only when
\* enableActionScene is true and the text, the original one as well as the
\* running one, holds more than five action verbs.
C4_ActionStageOnlyOnActionScenes ==
  [][(pc = "action" /\ enhancedText' # enhancedText) =>
       /\ options.enableActionScene
       /\ actionVerbsOf(text) > SceneThreshold
       /\ actionVerbsOf(enhancedText) > SceneThreshold]_vars

\* the Action-Scene step was passed with the flag on and a text that holds an
\* action verb, but not more than five, and left the running text alone
C4_ActionStagePassedNonActionText ==
  /\ pc = "prose"
  /\ options.enableActionScene
  /\ actionVerbsOf(text) \in 1..SceneThreshold
  /\ "action" \notin stagesRun
  /\ enhancedText = lastOutput

\* the bullets of the summary's technique list
listsTechnique(summaryText, name) == includes(summaryText, "\n- " \o name \o "\n")

\* C5: the technique list of the summary names a technique exactly when it was
\* applied: the four unconditional ones when their flag is true, Action Scene
\* Enhancement when enableActionScene is true and the text is an action scene
\* (that is, when the Action-Scene stage ran).
C5_SummaryListsAppliedTechniques ==
  pc = "returned" =>
    /\ listsTechnique(result.value, techniqueNames.enableGoldenShadow)
         = ("golden" \in stagesRun)
    /\ listsTechnique(result.value, techniqueNames.enableEnvironmental)
         = ("environmental" \in stagesRun)
    /\ listsTechnique(result.value, techniqueNames.enableProseSmoother)
         = ("prose" \in stagesRun)
    /\ listsTechnique(result.value, techniqueNames.enableRepetitionElimination)
         = ("repetition" \in stagesRun)
    /\ listsTechnique(result.value, techniqueNames.enableActionScene)
         = (options.enableActionScene /\ determineSceneType(text).isAction)

\* the summary names Action Scene Enhancement although the stage never ran
C5_ListedButNotApplied ==
  /\ pc = "returned"
  /\ "action" \notin stagesRun
  /\ ~determineSceneType(text).isAction
  /\ listsTechnique(result.value, "Action Scene Enhancement")

wordsReplaced == {replaced[i].word : i \in 1..Len(replaced)}

replacementsOf(word) == {i \in 1..Len(replaced) : replaced[i].word = word}

\* C6: Repetition Elimination replaces no occurrence of a word shorter than
\* five characters; of the n occurrences of a flagged word it replaces at most
\* ceil(0.6 n), each occurrence (a match index below n) at most once.
C6_RepetitionEliminationBounds ==
  /\ \A i \in 1..Len(replaced) :
       /\ Len(replaced[i].word) >= 5
       /\ Len(replaced[i].matchedText) >= 5
       /\ toLowerCase(replaced[i].matchedText) = replaced[i].word
       /\ replaced[i].index \in 0..(replaced[i].occurrences - 1)
  /\ \A i, j \in 1..Len(replaced) :
       (i # j /\ replaced[i].word = replaced[j].word) =>
          /\ replaced[i].index # replaced[j].index
          /\ replaced[i].occurrences = replaced[j].occurrences
  /\ \A i \in 1..Len(replaced) :
       10 * Cardinality(replacementsOf(replaced[i].word)) <= 6 * replaced[i].occurrences + 9

\* the stage met a word of four characters that occurs three times and has
\* replacements ("said"), and replaced two of the three occurrences of "looked"
C6_ReplacedTwoOfThree ==
  /\ pc = "summary"
  /\ text = RepetitionText
  /\ Len(matchWord(enhancedText, "said")) = 3
  /\ wordsReplaced = {"looked"}
  /\ Cardinality(replacementsOf("looked")) = 2
  /\ \A i \in replacementsOf("looked") : replaced[i].occurrences = 3

\* C7: enhance_text(text, 100) returns, for every text, a string at least as
\* long as the original text (checked under SpecJs).
C7_ResultAtLeastAsLong ==
  (method = "enhance_text" /\ expansionTarget = 100 /\ pc = "returned") =>
     /\ result.kind = "string"
     /\ Len(result.value) >= Len(text)

\* enhance_text(text, 100) returned a string shorter than the text: the long
\* run of white space between its two sentences became one space
C7_ShorterThanOriginal ==
  /\ method = "enhance_text"
  /\ expansionTarget = 100
  /\ pc = "returned"
  /\ text = "Go." \o Rep(" ", WideGap) \o "Go."
  /\ startsWith(result.value, "Go. Go. \n\nThe subtle details")
  /\ Len(result.value) < Len(text)

\* C7, for EnhancementProcessor.enhanceText(text, 100) (checked under Spec):
\* the call returns a string at least as long as the original text.
C7_ProcessorResultAtLeastAsLong ==
  (method = "enhanceText" /\ expansionTarget = 100 /\ pc \in {"returned", "threw"}) =>
     /\ result.kind = "string"
     /\ Len(result.value) >= Len(text)

\* C8: for every non-empty text and target T the final word count, after all
\* stages, is at least round(originalWordCount * T / 100).
C8_TargetIsMet ==
  (method = "enhanceText" /\ pc = "returned" /\ Len(text) > 0) =>
     countWords(enhancedText) >= RoundScaled(countWords(text), expansionTarget)

\* a call with target 200 returned a text with no more words than the original
C8_NothingAdded ==
  /\ method = "enhanceText"
  /\ pc = "returned"
  /\ expansionTarget = DefaultTarget
  /\ countWords(text) > 0
  /\ countWords(enhancedText) = countWords(text)

(***************************************************************************)
(* Properties of the TextAnalyzer functions, checked under SpecAnalyzer.   *)
(***************************************************************************)
\* a word of t (between white space, without its non-word characters) is the
\* pronoun, in any letter case
pronounOccurs(t, pronoun) ==
  \E k \in 1..Len(splitWhitespace(t)) :
     toLowerCase(removeAllNonWord(splitWhitespace(t)[k])) = toLowerCase(pronoun)

anyOccurs(t, pronouns) == \E k \in 1..Len(pronouns) : pronounOccurs(t, pronouns[k])

\* C9: identifyCharacterFocus reports "first-person" whenever a pronoun of the
\* first-person list (I, me, my, mine, we, us, our, ours) occurs in the text,
\* otherwise "third-person" when one of the third-person list occurs,
\* otherwise "unclear".
C9_PointOfViewFollowsPronouns ==
  (method = "identifyCharacterFocus" /\ pc = "returned") =>
     result.value.pointOfView =
       (IF anyOccurs(text, firstPersonPronouns) THEN "first-person"
        ELSE IF anyOccurs(text, thirdPersonPronouns) THEN "third-person" ELSE "unclear")

\* the text says "I" and is reported as third-person
C9_FirstPersonMissed ==
  /\ method = "identifyCharacterFocus"
  /\ pc = "returned"
  /\ text = "I saw him"
  /\ result.value.pointOfView = "third-person"
  /\ result.value.pronounDistribution.firstPerson = 0

\* C10, as the code has it: determineSceneType is a function of three counts;
\* it returns "dialogue" when the quoted spans are more than five or the
\* speech-tag verbs are more than five (each count on its own), otherwise
\* "action" when the action verbs are more than five, otherwise "exposition".
C10_SceneTypeOfThreeCounts ==
  (method = "determineSceneType" /\ pc = "returned") =>
     \A a, t, q \in 0..MaxRep :
        text = sceneText(a, t, q) =>
          /\ result.value.dominantType =
               (IF q > 5 \/ t > 5 THEN "dialogue"
                ELSE IF a > 5 THEN "action" ELSE "exposition")
          /\ result.value.dialogueCount = q
          /\ result.value.actionVerbCount = a

\* C10, as stated: the quoted spans and the speech-tag verbs make one
\* dialogue-marker count; "dialogue" when it is above five, otherwise "action"
\* when the action-verb count is above five, otherwise "exposition".
C10_SceneTypeOfTwoCounts ==
  (method = "determineSceneType" /\ pc = "returned") =>
     \A a, t, q \in 0..MaxRep :
        text = sceneText(a, t, q) =>
          result.value.dominantType =
            (IF q + t > 5 THEN "dialogue" ELSE IF a > 5 THEN "action" ELSE "exposition")

\* three quoted spans and three speech tags: six dialogue markers, and the
\* scene is not "dialogue"
C10_SixMarkersNotDialogue ==
  /\ method = "determineSceneType"
  /\ pc = "returned"
  /\ text = sceneText(0, 3, 3)
  /\ result.value.dominantType = "exposition"

(***************************************************************************)
(* Properties of the repetition finders, checked under SpecAnalyzer.       *)
(***************************************************************************)
\* the place of the first occurrence of the word among the tokens of t
firstEncounter(t, w) == MinOf({k \in 1..Len(wordTokens(t)) : wordTokens(t)[k] = w})

occurrencesOf(t, w) == Cardinality({k \in 1..Len(wordTokens(t)) : wordTokens(t)[k] = w})

\* C11: findRepeatedWords returns at most 10 entries, each a token longer
\* than 3 characters with its count, which is above 2; every such token is
\* returned (there are fewer than 10 here); the entries are ordered by
\* decreasing count and, among equal counts, by first encounter in the text,
\* numeric tokens like any other.
C11_RepeatedWordsByFirstEncounter ==
  (method = "findRepeatedWords" /\ pc = "returned") =>
     LET v == result.value
     IN /\ Len(v) <= 10
        /\ \A i \in 1..Len(v) :
              /\ Len(v[i][1]) > 3
              /\ v[i][2] > 2
              /\ v[i][2] = occurrencesOf(text, v[i][1])
        /\ \A w \in {"statue", "garden", "2024"} :
              occurrencesOf(text, w) > 2 => \E i \in 1..Len(v) : v[i][1] = w
        /\ \A i, j \in 1..Len(v) :
              i < j =>
                \/ v[i][2] > v[j][2]
                \/ /\ v[i][2] = v[j][2]
                   /\ firstEncounter(text, v[i][1]) < firstEncounter(text, v[j][1])

\* "garden" and "2024" both occur three times, "garden" first, and "2024" is
\* listed ahead of it
C11_NumberAheadOfEarlierWord ==
  /\ method = "findRepeatedWords"
  /\ pc = "returned"
  /\ text = countedText(0, 3, 3, 0)
  /\ result.value = <<<<"2024", 3>>, <<"garden", 3>>>>

C13_StructureKeyByWordCount ==
  (method = "findRepeatedSentenceStructures" /\ pc = "returned") =>
     \A lead \in StructureLeads, k \in 1..MaxWords, copies \in 1..MaxCopies :
        text = structureText(lead, k, copies) =>
          result.value =
            (IF copies > 2
             THEN <<<<"he-" \o (IF k < 8 THEN "short" ELSE IF k < 15 THEN "medium" ELSE "long"),
                      copies>>>>
             ELSE <<>>)

\* three sentences of 7 words after a first sentence are counted as "medium"
C13_SevenWordsCountedMedium ==
  /\ method = "findRepeatedSentenceStructures"
  /\ pc = "returned"
  /\ text = structureText("Go. ", 7, 3)
  /\ result.value = <<<<"he-medium", 3>>>>

(***************************************************************************)
(* Properties of analyzeText, checked under SpecAnalyzer.                  *)
(***************************************************************************)
\* C14: when the text has no sentence, the average sentence length
\* evaluateProseSmoothingNeed yields is 0 and not NaN, and the report of
\* analyzeText shows it as 0.0
C14_NoSentenceAverageIsZero ==
  (method = "analyzeText" /\ pc = "returned" /\ sentencesOf(text) = <<>>) =>
    /\ evaluateProseSmoothingNeed(text).averageSentenceLength.den # 0
    /\ evaluateProseSmoothingNeed(text).averageSentenceLength.num = 0
    /\ includes(result.value, "- **Average Sentence Length**: 0.0 words")
    /\ ~includes(result.value, "NaN")

\* analyzeText was called with a text of blanks and returned a report whose
\* average sentence length reads NaN
C14_BlankTextReportsNaN ==
  /\ method = "analyzeText"
  /\ pc = "returned"
  /\ text = "   "
  /\ sentencesOf(text) = <<>>
  /\ includes(result.value, "- **Average Sentence Length**: NaN words")

(***************************************************************************)
(* Properties of the stages, checked under SpecStages.                     *)
(***************************************************************************)
\* C15: the Golden Shadow stage returns a text with one paragraph more than
\* it received when the text has a plot indicator and with as many paragraphs
\* otherwise; the character development alone leaves the number of
\* paragraphs as it was
C15_GoldenShadowParagraphCount ==
  \A i \in 1..Len(trace) :
    trace[i].stage = "golden" =>
      /\ Len(paragraphsOf(trace[i].output))
           = Len(paragraphsOf(trace[i].input))
             + (IF containsPatterns(trace[i].input, plotIndicators) THEN 1 ELSE 0)
      /\ Len(paragraphsOf(developCharacters(trace[i].input,
                                            underdevelopedCharactersOf(trace[i].input))))
           = Len(paragraphsOf(trace[i].input))

\* the stage developed a character of a text of three paragraphs and added
\* the plot paragraph as the fourth
C15_CharacterAndPlotAdded ==
  /\ method = "applyGoldenShadowEnhancement"
  /\ pc = "returned"
  /\ Len(underdevelopedCharactersOf(text)) > 0
  /\ containsPatterns(text, plotIndicators)
  /\ Len(paragraphsOf(text)) = 3
  /\ Len(paragraphsOf(result.value)) = 4
  /\ includes(result.value, "'s expression betrayed")

\* C16: the Action Scene stage returns as many paragraphs as it received, in
\* the same order, each beginning with the paragraph it received
C16_ActionSceneAppendsOnly ==
  \A i \in 1..Len(trace) :
    trace[i].stage = "action" =>
      /\ Len(paragraphsOf(trace[i].output)) = Len(paragraphsOf(trace[i].input))
      /\ \A k \in 1..Len(paragraphsOf(trace[i].input)) :
           startsWith(paragraphsOf(trace[i].output)[k], paragraphsOf(trace[i].input)[k])

\* the stage left the first of two paragraphs as it was and enhanced the
\* second
C16_ActionParagraphsExtended ==
  /\ method = "applyActionSceneEnhancement"
  /\ pc = "returned"
  /\ Len(paragraphsOf(text)) = 2
  /\ Len(paragraphsOf(result.value)) = 2
  /\ paragraphsOf(result.value)[1] = paragraphsOf(text)[1]
  /\ paragraphsOf(result.value)[2] # paragraphsOf(text)[2]
  /\ includes(paragraphsOf(result.value)[2], "perfect stillness")

(***************************************************************************)
(* Properties of the UnoServer, checked under SpecServer.                  *)
(***************************************************************************)
\* C17: a request for one of the three tools whose text argument is missing
\* or is not a string is answered with the invalid-parameters error, and
\* neither the analyzer nor the enhancer was called
C17_MissingTextIsInvalidParams ==
  (/\ pc = "responded"
   /\ request.name \in {"analyze_text", "enhance_text", "custom_enhance_text"}
   /\ IF request.arguments.type = "undefined" THEN TRUE
      ELSE request.arguments.text.type # "string") =>
    /\ result.kind = "McpError"
    /\ result.code = "InvalidParams"
    /\ method = "none"
    /\ trace = <<>>

\* analyze_text was requested without arguments and the answer is the
\* internal error made of the TypeError that reading args.text raised
C17_NoArgumentsIsInternalError ==
  /\ pc = "responded"
  /\ request.name = "analyze_text"
  /\ request.arguments = Undefined
  /\ request.raised = TypeError
  /\ result.kind = "McpError"
  /\ result.code = "InternalError"
  /\ method = "none"

aloneResults(called) ==
  IF called.method = "analyzeText"
  THEN {IF analyzeTextThrows(called.text) THEN thrown
        ELSE [kind |-> "string", value |-> analyzeText(called.text)]}
  ELSE customEnhanceTextAlone(called.text, called.expansionTarget, called.options,
                              called.random)

\* C19: whatever the other calls do between its steps, a call ends the way
\* it ends when it runs alone with the same draws of Math.random(); the end
\* of a call, also one that raises, changes the frame of no other call and
\* no field of the analyzer, the processor or the server
C19_CallsEndAsAlone ==
  [][\A c \in CallIds :
       (c <= Len(trace) /\ trace[c].result = noResult /\ trace'[c].result # noResult) =>
         /\ trace'[c].result \in aloneResults(trace'[c])
         /\ \A k \in DOMAIN frames : k # c => frames'[k] = frames[k]
         /\ instance' = instance]_vars

\* a call of enhanceText returned its text with a draw made for it, and the
\* other call raised while the first one was running
C19_ReturnedAfterFailureOfOther ==
  /\ Len(trace) = 2
  /\ trace[1].method = "enhanceText"
  /\ trace[1].result.kind = "string"
  /\ Len(trace[1].random.action) > 0
  /\ trace[2].result = thrown
  /\ 1 \in trace[2].during

(***************************************************************************)
(* Properties of the Golden Shadow stage, checked under SpecStages.        *)
(***************************************************************************)
\* the first paragraph of the text that mentions the character
firstMention(paragraphs, character) ==
  MinOf({i \in 1..Len(paragraphs) : Len(matchWord(paragraphs[i], character)) > 0})

\* the number of places of s where p stands
placesOf(s, p) == Cardinality({i \in 1..(Len(s) - Len(p) + 1) : OccursAt(s, p, i)})

\* C21: for every underdeveloped character of its input the Golden Shadow
\* stage inserts the character addition once, at the end of the paragraph of
\* the input that mentions the character first
C21_AdditionAfterFirstMention ==
  \A i \in 1..Len(trace) :
    trace[i].stage = "golden" =>
      \A k \in 1..Len(underdevelopedCharactersOf(trace[i].input)) :
        LET character == underdevelopedCharactersOf(trace[i].input)[k]
            before == paragraphsOf(trace[i].input)
            after == paragraphsOf(trace[i].output)
        IN /\ placesOf(trace[i].output, characterAddition(character)) = 1
           /\ \E q \in 1..Len(after) :
                /\ startsWith(after[q], before[firstMention(before, character)])
                /\ includes(SliceFrom(after[q],
                                      Len(before[firstMention(before, character)]) + 1),
                            characterAddition(character))

\* the stage put the addition of There, which the text mentions first in its
\* second paragraph, into the first paragraph, behind the addition of Ann
C21_AdditionInsideEarlierAddition ==
  /\ method = "applyGoldenShadowEnhancement"
  /\ pc = "returned"
  /\ text = "we saw Ann.\n\nThere was Bob."
  /\ underdevelopedCharactersOf(text) = <<"Ann", "There", "Bob">>
  /\ result.value = "we saw Ann." \o characterAddition("Ann") \o characterAddition("There")
                    \o ParagraphBreak \o "There was Bob." \o characterAddition("Bob")

(***************************************************************************)
(* Properties of the Environmental stage, checked under SpecStages.        *)
(***************************************************************************)
\* what C22 says of one run of the stage, `keywords` being the setting
\* keywords: the text changes exactly when it has none of them or fewer than
\* 3 senses; then the first paragraph with a keyword (else the second, else
\* the only one) gets the additions of the missing senses, the object
\* paragraph follows it and the other paragraphs are as they were
expandsAsClaimed(input, output, keywords) ==
  LET need == evaluateEnvironmentalExpansionNeed(input)
      before == paragraphsOf(input)
      after == paragraphsOf(output)
      withSetting == {i \in 1..Len(before) : containsPatterns(before[i], keywords)}
      selected == IF withSetting # {} THEN MinOf(withSetting)
                  ELSE IF Len(before) >= 2 THEN 2 ELSE 1
      additions ==
        (IF ~need.hasSufficientVisualDescriptions THEN visualAddition ELSE "")
        \o (IF ~need.hasSufficientAuditoryDescriptions THEN auditoryAddition ELSE "")
        \o (IF ~need.hasSufficientTactileDescriptions THEN tactileAddition ELSE "")
        \o (IF ~need.hasSufficientOlfactoryDescriptions THEN olfactoryAddition ELSE "")
  IN IF containsPatterns(input, keywords) /\ need.sensoryRichness >= RichnessThreshold
     THEN output = input
     ELSE /\ Len(after) = Len(before) + 1
          /\ after[selected] = before[selected] \o additions
          /\ after[selected + 1] = objectParagraph
          /\ \A j \in 1..Len(before) :
               /\ j < selected => after[j] = before[j]
               /\ j > selected => after[j + 1] = before[j]

\* C22: every run of the Environmental stage is as the claim says, for the
\* setting keywords of the analyzer or for those of the stage
C22_ExpandsAtSettingParagraph ==
  \A i \in 1..Len(trace) :
    trace[i].stage = "environmental" =>
      \/ expandsAsClaimed(trace[i].input, trace[i].output, settingPatterns)
      \/ expandsAsClaimed(trace[i].input, trace[i].output, settingKeywords)

\* the text has three senses and a lake in the first of its two paragraphs:
\* the stage changed it, and it chose the paragraph with the lake
C22_LakeIsSettingOnlyForTheStage ==
  /\ method = "applyEnvironmentalExpansion"
  /\ pc = "returned"
  /\ text = "the lake was dark, quiet and cold\n\nAnn left"
  /\ evaluateEnvironmentalExpansionNeed(text).sensoryRichness = 3
  /\ ~evaluateEnvironmentalExpansionNeed(text).hasSettingDescription
  /\ paragraphsOf(result.value)
       = <<"the lake was dark, quiet and cold" \o olfactoryAddition, objectParagraph,
           "Ann left">>

\* a paragraph of the output is the paragraph of the input, or it with one of
\* the ten transitions before it
smoothened(before, after) ==
  \/ after = before
  \/ \E k \in 1..Len(transitions) : after = transitions[k] \o before

\* C23: the Prose-Smoothing stage returns a text with a transition word as it
\* is; of any other text, whatever the draws, it returns as many paragraphs in
\* the same order, the first one unchanged and each later one unchanged or
\* with exactly one of the ten transitions before it
C23_ProseSmootheningPrefixesLaterParagraphs ==
  \A n \in 1..Len(trace) :
    trace[n].stage = "prose" =>
      LET holds(before, after) ==
            IF hasTransitionWords(trace[n].input)
            THEN trace[n].output = trace[n].input
            ELSE /\ Len(after) = Len(before)
                 /\ after[1] = before[1]
                 /\ \A i \in 2..Len(before) : smoothened(before[i], after[i])
      IN holds(paragraphsOf(trace[n].input), paragraphsOf(trace[n].output))

\* of three paragraphs without a transition word the second was given a
\* transition and the third was not
C23_SecondParagraphPrefixed ==
  /\ method = "applyProseSmoothening"
  /\ pc = "returned"
  /\ text = "Ann left\n\nBob ran\n\nAnn left"
  /\ ~hasTransitionWords(text)
  /\ paragraphsOf(result.value) = <<"Ann left", transitions[1] \o "Bob ran", "Ann left">>

isUpperCase(c) == c \in UpperSet

synonymsOf(word) == {wordReplacements[word][k] : k \in 1..Len(wordReplacements[word])}

\* C24: every replacement the Repetition-Elimination stage makes is a synonym
\* of the list of the word it replaces, and its first letter is upper case
\* exactly when the first letter of the occurrence it replaces was
C24_ReplacementIsOwnSynonymOfSameCase ==
  \A i \in 1..Len(replaced) :
    /\ toLowerCase(replaced[i].matchedText) \in DOMAIN wordReplacements
    /\ toLowerCase(replaced[i].replacement) \in synonymsOf(toLowerCase(replaced[i].matchedText))
    /\ SliceFrom(replaced[i].replacement, 2)
         \in {SliceFrom(w, 2) : w \in synonymsOf(toLowerCase(replaced[i].matchedText))}
    /\ isUpperCase(CharAt(replaced[i].replacement, 1))
         <=> isUpperCase(CharAt(replaced[i].matchedText, 1))

\* of the three occurrences of "looked" the stage replaced "Looked" and one
\* written in lower case
C24_ReplacedCapitalisedAndPlain ==
  /\ pc = "summary"
  /\ text = RepetitionText
  /\ \E i, j \in 1..Len(replaced) :
       /\ replaced[i].matchedText = "Looked"
       /\ isUpperCase(CharAt(replaced[i].replacement, 1))
       /\ replaced[j].matchedText = "looked"
       /\ replaced[j].replacement \in synonymsOf("looked")

(***************************************************************************)
(* The same call with two targets.  customEnhanceText is called, and then  *)
(* called again with the same text, the same options and the same values   *)
(* of Math.random() in the Action Scene and Prose Smoothing stages, but    *)
(* with another target.  An entry of `trace` keeps the arguments of a call *)
(* and everything it can return or raise with these values (the draws of   *)
(* the Repetition Elimination stage are the same in both calls, so the     *)
(* stage has the same outcomes to choose from).                            *)
(***************************************************************************)
called(t, target, o, random) ==
  /\ method' = "customEnhanceText"
  /\ text' = t
  /\ expansionTarget' = target
  /\ options' = o
  /\ pc' = "returned"
  /\ trace' = Append(trace, [text |-> t, expansionTarget |-> target, options |-> o,
                             random |-> random,
                             outcomes |-> customEnhanceTextAlone(t, target, o, random)])
  /\ UNCHANGED <<enhancedText, result, replaced, serverVars>>

\* a text without draws, one with several outcomes of the Repetition
\* Elimination stage, one with draws for the prose, and one the analysis
\* fails on
TargetTexts == {QuietText, RepetitionText, ProseText, ParenText}

CustomEnhanceTextWithTarget ==
  /\ pc = "idle"
  /\ \E t \in TargetTexts, target \in Targets, o \in EnhancementOptions :
       \E random \in drawsAlone(t, o) : called(t, target, o, random)

CustomEnhanceTextWithOtherTarget ==
  /\ pc = "returned"
  /\ Len(trace) = 1
  /\ \E target \in Targets \ {expansionTarget} :
       called(text, target, options, trace[1].random)

NextTargets ==
  \/ CustomEnhanceTextWithTarget
  \/ CustomEnhanceTextWithOtherTarget

SpecTargets == Init /\ [][NextTargets]_vars

\* the figure of target `t` as the summary prints it
targetFigure(t) == "% of original (" \o numberToString(t) \o "% target)\n"

\* the results a and b, of calls with the targets s and t, are the same up to
\* the figure of the target in the summary
sameButFigure(a, s, b, t) ==
  IF a.kind # "string" \/ b.kind # "string" THEN a = b
  ELSE LET same(k) ==
             /\ k > 0
             /\ SliceTo(a.value, k - 1) = SliceTo(b.value, k - 1)
             /\ OccursAt(b.value, targetFigure(t), k)
             /\ SliceFrom(a.value, k + Len(targetFigure(s)))
                  = SliceFrom(b.value, k + Len(targetFigure(t)))
       IN same(indexOf(a.value, targetFigure(s), 1))

RECURSIVE foundUpTo(_, _, _, _, _)
foundUpTo(s, t, lo, hi, j) ==
  IF lo > hi THEN j
  ELSE IF OccursAt(t, SubSeq(s, lo, hi), j) THEN j + (hi - lo) + 1
  ELSE IF lo = hi
       THEN LET next(places) == IF places = {} THEN Len(t) + 2 ELSE MinOf(places) + 1
            IN next({p \in j..Len(t) : CharAt(t, p) = CharAt(s, lo)})
  ELSE LET mid == (lo + hi) \div 2
       IN foundUpTo(s, t, mid + 1, hi, foundUpTo(s, t, lo, mid, j))

\* s is what is left of t when characters of t are deleted
survivesIn(s, t) == foundUpTo(s, t, 1, Len(s), 1) <= Len(t) + 1

\* C26: the stages 1 to 4 only insert text: the input of each of them is left
\* when characters of its output are deleted, and with Repetition Elimination
\* off every character of the original text is in the enhanced prose, in the
\* original order
C26_FirstFourStagesOnlyInsert ==
  /\ \A n \in 1..Len(trace) :
       trace[n].stage \in {"golden", "environmental", "action", "prose"} =>
         survivesIn(trace[n].input, trace[n].output)
  /\ (method = "customEnhanceText" /\ pc \in {"summary", "returned"}
        /\ ~options.enableRepetitionElimination /\ result.kind # "exception") =>
       survivesIn(text, enhancedText)

\* the four stages ran on the action text, Repetition Elimination was off, and
\* the prose has grown
C26_FourStagesInserted ==
  /\ method = "customEnhanceText"
  /\ pc = "summary"
  /\ text = ActionText
  /\ ~options.enableRepetitionElimination
  /\ [n \in 1..Len(trace) |-> trace[n].stage]
       = <<"golden", "environmental", "action", "prose">>
  /\ \A n \in 1..Len(trace) : trace[n].output # trace[n].input

\* C27: along the pipeline of customEnhanceText the word count never
\* decreases: no stage returns fewer words than it was given, the
\* Repetition-Elimination stage returns exactly as many, and the final word
\* count of the summary is at least the original one.  (The stage examined in
\* a state is the one that ran last; every stage is the last one in the state
\* it leaves.)
C27_WordCountNeverDecreases ==
  /\ Len(trace) > 0 =>
       LET kept(stage, before, after) ==
             IF stage = "repetition" THEN after = before ELSE after >= before
       IN kept(trace[Len(trace)].stage, countWords(trace[Len(trace)].input),
               countWords(trace[Len(trace)].output))
  /\ (pc = "summary" /\ result.kind # "exception") =>
       countWords(enhancedText) >= countWords(text)

\* all five stages ran on the text with the repeated words; Repetition
\* Elimination replaced two of its words by synonyms, and the text has as
\* many words as before
C27_WordsReplacedCountKept ==
  /\ pc = "summary"
  /\ text = RepetitionText
  /\ options = allEnabled
  /\ Len(replaced) = 2
  /\ trace[Len(trace)].stage = "repetition"
  /\ trace[Len(trace)].output # trace[Len(trace)].input
  /\ countWords(enhancedText) = countWords(text)

\* the sequence p is the beginning of the sequence s
isPrefix(p, s) == Len(p) <= Len(s) /\ SubSeq(s, 1, Len(p)) = p

\* C28: for every text the topRepeatedWords of evaluateRepetitionSeverity are
\* the beginning of the list findRepeatedWords returns for it: the same
\* words with the same counts in the same order
C28_TopRepeatedWordsBeginRepeatedWords ==
  (method = "evaluateRepetitionSeverity" /\ pc = "returned") =>
    isPrefix(result.value.topRepeatedWords, findRepeatedWords(text))

\* of six words that occur four times the first five are the top repeated
\* words, and findRepeatedWords returns them before the sixth and four of the
\* five words that occur three times
C28_FiveOfSixBeforeTheOthers ==
  /\ method = "evaluateRepetitionSeverity"
  /\ pc = "returned"
  /\ text = ElevenWordsText
  /\ result.value.repeatedWordCount = 6
  /\ Len(result.value.topRepeatedWords) = 5
  /\ Len(findRepeatedWords(text)) = 10
  /\ findRepeatedWords(text)[6] = <<"sigma", 4>>
  /\ findRepeatedWords(text)[7] = <<"omega", 3>>

\* C29: determineSceneType never returns "mixed": the dominantType is
\* "action", "dialogue" or "exposition", and exactly one of the two holds:
\* isExposition is true, or isAction or isDialogue is true
C29_SceneTypeIsNeverMixed ==
  (method = "determineSceneType" /\ pc = "returned") =>
    /\ result.value.dominantType # "mixed"
    /\ result.value.dominantType \in {"action", "dialogue", "exposition"}
    /\ result.value.isExposition # (result.value.isAction \/ result.value.isDialogue)

\* a text with six action verbs and six speech tags is an action scene and
\* dialogue-heavy, and its type is "dialogue"
C29_ActionAndDialogueIsDialogue ==
  /\ method = "determineSceneType"
  /\ pc = "returned"
  /\ text = sceneText(6, 6, 0)
  /\ result.value.isAction
  /\ result.value.isDialogue
  /\ ~result.value.isExposition
  /\ result.value.dominantType = "dialogue"

\* the request is for one of the three tools and its text is the empty string
emptyTextRequested ==
  /\ request # noRequest
  /\ request.name \in {"analyze_text", "enhance_text", "custom_enhance_text"}
  /\ request.arguments.type = "object"
  /\ request.arguments.text = JsString("")

\* C30: a request for one of the three tools whose text is the empty string
\* is answered with the invalid-parameters error, and neither the analyzer
\* nor the enhancer is called; no request makes them run on the empty text
C30_EmptyTextIsInvalidParams ==
  /\ emptyTextRequested =>
       /\ pc = "responded"
       /\ result.kind = "McpError"
       /\ result.code = "InvalidParams"
       /\ method = "none"
       /\ trace = <<>>
  /\ (request # noRequest /\ method # "none") => text # ""

\* custom_enhance_text was requested with the empty string as text, and the
\* answer is the invalid-parameters error the handler raised
C30_EmptyTextOfCustomEnhanceRejected ==
  /\ emptyTextRequested
  /\ pc = "responded"
  /\ request.name = "custom_enhance_text"
  /\ request.raised = McpError("InvalidParams", "Missing or invalid text parameter")
  /\ result = request.raised

====
